---- MODULE Spec2Model ----
(***************************************************************************)
(* Motorcycle Runner (src/game/game.js): the game simulation loop as a     *)
(* state machine.  One action per event handler (keydown, keyup,           *)
(* touchstart, touchend, restart click, orientationchange/resize) and one  *)
(* for the animation-frame callback gameLoop.                              *)
(*                                                                         *)
(* Units.  Lengths, positions and speeds are kept in tenths of a pixel     *)
(* (6 px/tick is 60, gravity 0.8 is 8), so every value the code computes   *)
(* from its constants is an integer; spawn frames are kept in half frames  *)
(* (the interval decrease rate is 0.5 frame), skyTransition in hundredths. *)
(***************************************************************************)
EXTENDS Integers, Sequences, FiniteSets, TLC

\* ------------------------------------------------------------------ bounds
MaxFrame == 146
MaxFrameRestart == 12
MaxFrameRun == 360
MaxSessions == 3
MaxPending == 2
IdleTicks == 299
MaxItemLen == 3
MaxSpeedFactor == 200
IntervalTicks == 12
MaxFrameWide == 560
MaxFrameGate == 360
GateCanvasWidthPx == 1200
MaxFrameRide == 420
MaxFrameTwice == 130
MaxCoord == 2
MaxFrameLong == 920
FastFactor == 100
FastTicks == 80
MaxSize == 2
MaxFrameDense == 1000
MaxAirTicks == 45
MaxStrLen == 3
SettleFrames == 100

\* ------------------------------------------------------------------ units
\* PX: one pixel, in tenths.  HF: one frame, in half frames.  PCT: 1.0, in hundredths.
PX == 10
HF == 2
PCT == 100

\* --------------------------------------------------- CONFIG (game.js 12-59)
INITIAL_SPEED == 6 * PX
SPEED_INCREMENT == (5 * PX) \div 10
SPEED_INCREASE_INTERVAL == 300
OBSTACLE_MIN_INTERVAL == 60 * HF
OBSTACLE_MAX_INTERVAL == 120 * HF
OBSTACLE_INTERVAL_DECREASE_RATE == (5 * HF) \div 10
OBSTACLE_MIN_INTERVAL_CAP == 40 * HF
FLYING_OBSTACLE_MIN_INTERVAL == 100 * HF
FLYING_OBSTACLE_MAX_INTERVAL == 200 * HF
FLYING_OBSTACLE_MIN_SCORE == 100
VEHICLE_POINTS == 50
RIDEABLE_VEHICLE_POINTS == 100
RIDEABLE_VEHICLE_MIN_SCORE == 300
FLYING_OBSTACLE_POINTS == 75
\* FLYING_OBSTACLE_SPEED_MULTIPLIER is 1.2 = 12 / 10
FLYING_SPEED_NUM == 12
FLYING_SPEED_DEN == 10
SPRITE_SCALE == 3
PARTICLE_SPAWN_INTERVAL == 5
COLLISION_FLASH_DURATION == 10
BIRD_WING_FLAP_FRAME_INTERVAL == 10
\* HITBOX_SIZE_RATIO is 0.7 = 7 / 10
HITBOX_RATIO_NUM == 7
HITBOX_RATIO_DEN == 10
SAFE_DISTANCE_BIRD_VEHICLE == 300 * PX
OBSTACLE_RETRY_DELAY == 20 * HF
GROUND_INTERVAL_MIN_SPACING == 30 * HF
FLYING_INTERVAL_MIN_CAP == 60 * HF
FLYING_INTERVAL_MIN_SPACING == 50 * HF
SKY_TRANSITION_SPEED == PCT \div 100
SUN_MOON_SPEED == (5 * PX) \div 10
SUN_START_X == 100 * PX
STAR_COUNT == 50

\* literals of the code
SURVIVAL_FRAMES == 5
LANDING_FRAMES == 8
PARTICLE_LIFE == 20
RIDE_HEIGHT == 5 * PX
LAND_BELOW == 10 * PX
LAND_ABOVE == 5 * PX

\* game states (game.js 122-126)
WAITING == "waiting"
PLAYING == "playing"
GAME_OVER == "gameOver"

\* ------------------------------------------------ the page (not in src/)
\* canvas height and width are attributes of the page's canvas element.
\* CanvasWidthPx is the width the model runs with; the scenario of the
\* design document runs with 800.
CanvasHeightPx == 400
CanvasWidthPx == 100
ScenarioCanvasWidthPx == 800
CanvasHeight == CanvasHeightPx * PX

\* motorcycle constants (game.js 142-157)
MOTO_X == 50 * PX
MOTO_WIDTH == 80 * PX
MOTO_GRAVITY == (8 * PX) \div 10
MOTO_JUMP_POWER == (-15) * PX
MotoGroundY == CanvasHeight - 140 * PX
MOTO_DUCK_HEIGHT == 40 * PX
MOTO_NORMAL_HEIGHT == 60 * PX

\* ground line (game.js 181)
groundY == CanvasHeight - 80 * PX

\* ------------------------------------------------------------ sprites
\* sprites.js is not in src/: the pixel grids are known only by their size.
\* MOTORCYCLE_NORMAL is 20x16 and BIRD is 12x7 (README, old flyingObstacleConfig);
\* the other grids are taken as below.
SpriteGrid(sprite) ==
    CASE sprite = "MOTORCYCLE_NORMAL" -> [cols |-> 20, rows |-> 16]
      [] sprite = "MOTORCYCLE_DUCK"   -> [cols |-> 20, rows |-> 12]
      [] sprite = "BIRD_UP"           -> [cols |-> 12, rows |-> 7]
      [] sprite = "CAR"               -> [cols |-> 16, rows |-> 9]
      [] sprite = "TRUCK"             -> [cols |-> 20, rows |-> 12]
      [] sprite = "VAN"               -> [cols |-> 18, rows |-> 11]
      [] sprite = "BUS"               -> [cols |-> 32, rows |-> 14]
      [] sprite = "SEMI_TRUCK"        -> [cols |-> 40, rows |-> 15]

\* getSpriteDimensions: grid size times the scale (in tenths of a pixel)
getSpriteDimensions(sprite) ==
    [width  |-> SpriteGrid(sprite).cols * SPRITE_SCALE * PX,
     height |-> SpriteGrid(sprite).rows * SPRITE_SCALE * PX]

\* getObstacleTypes
obstacleTypes ==
    << [sprite |-> "CAR",        rideable |-> FALSE],
       [sprite |-> "TRUCK",      rideable |-> FALSE],
       [sprite |-> "VAN",        rideable |-> FALSE],
       [sprite |-> "BUS",        rideable |-> TRUE],
       [sprite |-> "SEMI_TRUCK", rideable |-> TRUE] >>

\* heights of which the lowest is in reach of the vehicle on the ground
heightVariations_Low == << (-60) * PX, (-120) * PX, (-140) * PX >>

\* flyingObstacleConfig.heightVariations
heightVariations == << (-100) * PX, (-120) * PX, (-140) * PX >>

\* ------------------------------------------------------------ utilities
Max(a, b) == IF a >= b THEN a ELSE b
Min(a, b) == IF a <= b THEN a ELSE b

NullVehicle == [id |-> 0]

\* the page of scripts.js before any of its functions is called
NoPage ==
    [call |-> "none", tmp |-> << >>, hex |-> << >>, str |-> << >>,
     month |-> 1, day |-> 1, year |-> 0,
     today |-> [year |-> 0, month |-> 0, date |-> 1],
     written |-> << >>]


\* ------------------------------------------------------------ state
VARIABLES
    gameState, score, highScore, frameCount, gameSpeed,
    collisionFlash, landingAnimation,
    nextGroundObstacleFrame, nextFlyingObstacleFrame,
    groundObstacleInterval, flyingObstacleInterval,
    motorcycle, obstacles, flyingObstacles, particles,
    sunX, isNightMode, skyTransition, stars,
    keys, isTouchDucking,
    stored,        \* localStorage['motorcycleHighScore']: a string, or NoItem
    pending,       \* requestAnimationFrame(gameLoop) callbacks not yet run
    isMobile,      \* the user agent is a mobile's (isLandscape, game.js 932)
    landscape,     \* the device is held in landscape
    canvasWidth,   \* canvas.width
    credited,      \* history: ids of the obstacles whose points were added
    sessions,      \* history: how many times startGame has reset the session
    resetSnap,     \* history: the session state startGame left before gameLoop()
    page           \* scott.kurtzeborn.com/scripts.js: the call made and its result

gameVars == << gameState, score, highScore, frameCount, gameSpeed,
               collisionFlash, landingAnimation,
               nextGroundObstacleFrame, nextFlyingObstacleFrame,
               groundObstacleInterval, flyingObstacleInterval,
               motorcycle, obstacles, flyingObstacles, particles,
               sunX, isNightMode, skyTransition, stars,
               keys, isTouchDucking, stored, pending, isMobile, landscape,
               canvasWidth, credited, sessions, resetSnap >>

vars == << gameVars, page >>

\* The program state as one value, so that a handler is a function on it.
St ==
    [gameState |-> gameState, score |-> score, highScore |-> highScore,
     frameCount |-> frameCount, gameSpeed |-> gameSpeed,
     collisionFlash |-> collisionFlash, landingAnimation |-> landingAnimation,
     nextGroundObstacleFrame |-> nextGroundObstacleFrame,
     nextFlyingObstacleFrame |-> nextFlyingObstacleFrame,
     groundObstacleInterval |-> groundObstacleInterval,
     flyingObstacleInterval |-> flyingObstacleInterval,
     motorcycle |-> motorcycle, obstacles |-> obstacles,
     flyingObstacles |-> flyingObstacles, particles |-> particles,
     sunX |-> sunX, isNightMode |-> isNightMode,
     skyTransition |-> skyTransition, stars |-> stars,
     keys |-> keys, isTouchDucking |-> isTouchDucking, stored |-> stored,
     pending |-> pending, isMobile |-> isMobile, landscape |-> landscape,
     canvasWidth |-> canvasWidth,
     credited |-> credited, sessions |-> sessions, resetSnap |-> resetSnap]

Commit(n) ==
    /\ gameState' = n.gameState
    /\ score' = n.score
    /\ highScore' = n.highScore
    /\ frameCount' = n.frameCount
    /\ gameSpeed' = n.gameSpeed
    /\ collisionFlash' = n.collisionFlash
    /\ landingAnimation' = n.landingAnimation
    /\ nextGroundObstacleFrame' = n.nextGroundObstacleFrame
    /\ nextFlyingObstacleFrame' = n.nextFlyingObstacleFrame
    /\ groundObstacleInterval' = n.groundObstacleInterval
    /\ flyingObstacleInterval' = n.flyingObstacleInterval
    /\ motorcycle' = n.motorcycle
    /\ obstacles' = n.obstacles
    /\ flyingObstacles' = n.flyingObstacles
    /\ particles' = n.particles
    /\ sunX' = n.sunX
    /\ isNightMode' = n.isNightMode
    /\ skyTransition' = n.skyTransition
    /\ stars' = n.stars
    /\ keys' = n.keys
    /\ isTouchDucking' = n.isTouchDucking
    /\ stored' = n.stored
    /\ pending' = n.pending
    /\ isMobile' = n.isMobile
    /\ landscape' = n.landscape
    /\ canvasWidth' = n.canvasWidth
    /\ credited' = n.credited
    /\ sessions' = n.sessions
    /\ resetSnap' = n.resetSnap
    /\ page' = page

\* ------------------------------------------------------------ localStorage
NoItem == << >>
Digits == << "0", "1", "2", "3", "4", "5", "6", "7", "8", "9" >>
IsDigit(c) == \E i \in 1..10 : Digits[i] = c
DigitVal(c) == (CHOOSE i \in 1..10 : Digits[i] = c) - 1

RECURSIVE NumToStr(_)
\* String(n) for n >= 0, as localStorage.setItem stores a number
NumToStr(n) ==
    IF n < 10 THEN << Digits[n + 1] >>
    ELSE Append(NumToStr(n \div 10), Digits[(n % 10) + 1])

\* parseInt's digits: the value of character c in the radix, -1 if it is none
HexLetters == << "a", "b", "c", "d", "e", "f" >>
HexCapitals == << "A", "B", "C", "D", "E", "F" >>
RadixVal(c, radix) ==
    IF IsDigit(c) THEN DigitVal(c)
    ELSE IF radix = 16 /\ \E i \in 1..6 : c \in { HexLetters[i], HexCapitals[i] }
         THEN 9 + (CHOOSE i \in 1..6 : c \in { HexLetters[i], HexCapitals[i] })
         ELSE -1

RECURSIVE DigitPrefix(_, _, _, _)
\* value of the longest run of digits of the radix from position i on, -1 if none
DigitPrefix(str, i, radix, acc) ==
    IF i > Len(str) THEN acc
    ELSE IF RadixVal(str[i], radix) < 0 THEN acc
    ELSE DigitPrefix(str, i + 1, radix,
                     (IF acc < 0 THEN 0 ELSE acc * radix) + RadixVal(str[i], radix))

RECURSIVE SkipSpace(_, _)
\* the first position from i on that holds no white space
SkipSpace(str, i) ==
    IF i <= Len(str) /\ str[i] = " " THEN SkipSpace(str, i + 1) ELSE i

\* a strict parse: the whole item must be a decimal integer, anything else is 0
ParseHighScore_Strict(item) ==
    IF item = NoItem THEN 0
    ELSE LET neg   == item[1] = "-"
             start == IF neg THEN 2 ELSE 1
             v     == DigitPrefix(item, start, 10, -1)
             whole == /\ start <= Len(item)
                      /\ \A i \in start..Len(item) : IsDigit(item[i])
         IN IF ~whole THEN 0 ELSE IF neg THEN -v ELSE v

\* parseInt(localStorage.getItem(...)) || 0 : getItem gives null for a missing
\* item and parseInt(null) is NaN; parseInt skips leading white space, reads an
\* optional sign, takes radix 16 after "0x" and 10 otherwise, reads the
\* leading digits and ignores what follows; NaN and 0 both give 0.
ParseHighScore(item) ==
    IF item = NoItem THEN 0
    ELSE LET first  == SkipSpace(item, 1)
             signed == first <= Len(item) /\ item[first] \in { "-", "+" }
             neg    == signed /\ item[first] = "-"
             start  == IF signed THEN first + 1 ELSE first
             hex    == start + 1 <= Len(item) /\ item[start] = "0" /\ item[start + 1] \in { "x", "X" }
             v      == IF hex THEN DigitPrefix(item, start + 2, 16, -1)
                              ELSE DigitPrefix(item, start, 10, -1)
         IN IF v < 0 THEN 0 ELSE IF neg THEN -v ELSE v

\* ------------------------------------------------------------ hitboxes
\* calculateHitbox with the size ratio left out
calculateHitbox_FullSize(spriteDims, offsetX, offsetY) ==
    [width   |-> spriteDims.width,
     height  |-> spriteDims.height,
     offsetX |-> offsetX,
     offsetY |-> offsetY]

\* calculateHitbox with explicit offsets (normalHitbox, duckHitbox)
calculateHitbox(spriteDims, offsetX, offsetY) ==
    [width   |-> (spriteDims.width * HITBOX_RATIO_NUM) \div HITBOX_RATIO_DEN,
     height  |-> (spriteDims.height * HITBOX_RATIO_NUM) \div HITBOX_RATIO_DEN,
     offsetX |-> offsetX,
     offsetY |-> offsetY]

normalHitbox == calculateHitbox(getSpriteDimensions("MOTORCYCLE_NORMAL"), 1 * PX, 4 * PX)
duckHitbox == calculateHitbox(getSpriteDimensions("MOTORCYCLE_DUCK"), 1 * PX, 3 * PX)

getMotorcycleHitbox(m) ==
    LET hitbox == IF m.isDucking THEN duckHitbox ELSE normalHitbox
    IN [x |-> MOTO_X + hitbox.offsetX,
        y |-> m.y + hitbox.offsetY,
        width |-> hitbox.width,
        height |-> hitbox.height]

\* the overlap test that counts touching edges as a hit
checkAABBCollision_Touching(rect1, rect2) ==
    /\ rect1.x <= rect2.x + rect2.width
    /\ rect1.x + rect1.width >= rect2.x
    /\ rect1.y <= rect2.y + rect2.height
    /\ rect1.y + rect1.height >= rect2.y

\* the overlap test without its second comparison
checkAABBCollision_OneSided(rect1, rect2) ==
    /\ rect1.x < rect2.x + rect2.width
    /\ rect1.y < rect2.y + rect2.height
    /\ rect1.y + rect1.height > rect2.y

checkAABBCollision(rect1, rect2) ==
    /\ rect1.x < rect2.x + rect2.width
    /\ rect1.x + rect1.width > rect2.x
    /\ rect1.y < rect2.y + rect2.height
    /\ rect1.y + rect1.height > rect2.y

\* ------------------------------------------------------------ difficulty
\* the window without the floor of the upper bound: both bounds decrease with
\* the speed factor and only the lower one is capped
SpawnWindow_NoFloor(frame, minInterval, maxInterval, minCap, minSpacing) ==
    LET speedFactor == frame \div SPEED_INCREASE_INTERVAL
    IN [lo |-> Max(minCap, minInterval - speedFactor * OBSTACLE_INTERVAL_DECREASE_RATE),
        hi |-> maxInterval - speedFactor * OBSTACLE_INTERVAL_DECREASE_RATE]

\* the window [lo, hi) calculateSpawnInterval draws from, in half frames
SpawnWindow(frame, minInterval, maxInterval, minCap, minSpacing) ==
    LET speedFactor == frame \div SPEED_INCREASE_INTERVAL
        adjustedMinInterval ==
            Max(minCap, minInterval - speedFactor * OBSTACLE_INTERVAL_DECREASE_RATE)
        adjustedMaxInterval ==
            Max(adjustedMinInterval + minSpacing,
                maxInterval - speedFactor * OBSTACLE_INTERVAL_DECREASE_RATE)
    IN [lo |-> adjustedMinInterval, hi |-> adjustedMaxInterval]

\* Math.random() * (hi - lo) + lo lies in [lo, hi); the two ends of the window
\* are drawn: lo itself and the last half frame below hi.
calculateSpawnInterval(frame, minInterval, maxInterval, minCap, minSpacing) ==
    LET w == SpawnWindow(frame, minInterval, maxInterval, minCap, minSpacing)
    IN { w.lo, w.hi - 1 }

\* isObstacleTooClose that takes any obstacle on the road as too close
isObstacleTooClose_Any(obstacleArray, width) ==
    Len(obstacleArray) # 0

\* isObstacleTooClose that overlooks an obstacle still at the right edge
isObstacleTooClose_Moved(obstacleArray, width) ==
    IF Len(obstacleArray) = 0 THEN FALSE
    ELSE LET gap == width - obstacleArray[Len(obstacleArray)].x
         IN gap > 0 /\ gap < SAFE_DISTANCE_BIRD_VEHICLE

\* isObstacleTooClose (game.js 338-342)
isObstacleTooClose(obstacleArray, width) ==
    IF Len(obstacleArray) = 0 THEN FALSE
    ELSE width - obstacleArray[Len(obstacleArray)].x < SAFE_DISTANCE_BIRD_VEHICLE


\* ------------------------------------------------------------ input
\* keys[e.code] is written for every key, but only keys['ArrowDown'] is ever
\* read (updateMotorcycle), so that entry is the one kept.
KeyCodes == { "Space", "ArrowUp", "ArrowDown" }
TrackedKeys == { "ArrowDown" }
SetKey(s, code, down) ==
    IF code \in TrackedKeys THEN [s EXCEPT !.keys[code] = down] ELSE s

\* performJump without the test of isJumping
performJump_MidAir(s) ==
    IF ~s.motorcycle.isDucking
    THEN [s EXCEPT !.motorcycle.velocityY = MOTO_JUMP_POWER,
                   !.motorcycle.isJumping = TRUE,
                   !.motorcycle.isRidingVehicle = FALSE,
                   !.motorcycle.ridingVehicle =
                        IF s.motorcycle.isRidingVehicle THEN NullVehicle ELSE @]
    ELSE s

\* performJump (game.js 345-355)
performJump(s) ==
    IF ~s.motorcycle.isJumping /\ ~s.motorcycle.isDucking
    THEN [s EXCEPT !.motorcycle.velocityY = MOTO_JUMP_POWER,
                   !.motorcycle.isJumping = TRUE,
                   !.motorcycle.isRidingVehicle = FALSE,
                   !.motorcycle.ridingVehicle =
                        IF s.motorcycle.isRidingVehicle THEN NullVehicle ELSE @]
    ELSE s

\* ------------------------------------------------------------ orientation
\* isLandscape (game.js 930-948): TRUE on a desktop, the orientation of the
\* device on a mobile
isLandscape(s) == IF ~s.isMobile THEN TRUE ELSE s.landscape

\* checkOrientation that also resumes a paused session once the device is
\* back in landscape
checkOrientation_Resumes(s) ==
    IF isLandscape(s)
    THEN IF s.gameState = WAITING /\ s.frameCount > 0
         THEN [s EXCEPT !.gameState = PLAYING] ELSE s
    ELSE IF s.gameState = PLAYING THEN [s EXCEPT !.gameState = WAITING] ELSE s

\* checkOrientation (game.js 950-962): the state it leaves; it returns isLandscape
checkOrientation(s) ==
    IF isLandscape(s) THEN s
    ELSE IF s.gameState = PLAYING THEN [s EXCEPT !.gameState = WAITING] ELSE s

\* ------------------------------------------------------------ a tick
\* updateDayNightCycle (game.js 774-797); the stars are kept by their number
updateDayNightCycle(s) ==
    LET x1     == s.sunX - SUN_MOON_SPEED
        flip   == x1 <= SUN_START_X
        night  == IF flip THEN ~s.isNightMode ELSE s.isNightMode
        target == IF night THEN PCT ELSE 0
    IN [s EXCEPT
          !.sunX = IF flip THEN s.canvasWidth - SUN_START_X ELSE x1,
          !.isNightMode = night,
          !.stars = IF flip /\ night THEN STAR_COUNT ELSE @,
          !.skyTransition =
              IF @ < target THEN Min(@ + SKY_TRANSITION_SPEED, target)
              ELSE IF @ > target THEN Max(@ - SKY_TRANSITION_SPEED, target)
              ELSE @]

\* updateMotorcycle that ducks on a held key while riding too
updateMotorcycle_DuckWhileRiding(s) ==
    LET m0 == s.motorcycle
        \* handle riding state
        m1 == IF m0.isRidingVehicle /\ m0.ridingVehicle # NullVehicle
              THEN LET vehicle == m0.ridingVehicle
                   IN IF vehicle.x + vehicle.width < MOTO_X
                      THEN [m0 EXCEPT !.isRidingVehicle = FALSE,
                                      !.ridingVehicle = NullVehicle,
                                      !.isJumping = TRUE,
                                      !.velocityY = 0]
                      ELSE [m0 EXCEPT !.y = vehicle.y - m0.height - RIDE_HEIGHT]
              ELSE m0
        \* handle ducking, riding or not
        m2 == IF s.keys["ArrowDown"] /\ ~m1.isJumping
              THEN [m1 EXCEPT !.isDucking = TRUE,
                              !.height = MOTO_DUCK_HEIGHT,
                              !.y = MotoGroundY + (MOTO_NORMAL_HEIGHT - MOTO_DUCK_HEIGHT)]
              ELSE IF ~m1.isJumping /\ ~m1.isRidingVehicle
              THEN [m1 EXCEPT !.isDucking = FALSE,
                              !.height = MOTO_NORMAL_HEIGHT,
                              !.y = MotoGroundY]
              ELSE m1
        \* apply gravity
        v3 == m2.velocityY + MOTO_GRAVITY
        y3 == m2.y + v3
        landed == m2.isJumping /\ y3 >= MotoGroundY
        m3 == IF ~m2.isJumping THEN m2
              ELSE IF landed
              THEN [m2 EXCEPT !.y = MotoGroundY,
                              !.velocityY = 0,
                              !.isJumping = FALSE,
                              !.isRidingVehicle = FALSE,
                              !.ridingVehicle = NullVehicle]
              ELSE [m2 EXCEPT !.velocityY = v3, !.y = y3]
        la == IF landed THEN LANDING_FRAMES ELSE s.landingAnimation
    IN [s EXCEPT !.motorcycle = m3,
                 !.landingAnimation = IF la > 0 THEN la - 1 ELSE la]

\* updateMotorcycle that lands where the fall ends, without the clamp
updateMotorcycle_NoClamp(s) ==
    LET m0 == s.motorcycle
        \* handle riding state
        m1 == IF m0.isRidingVehicle /\ m0.ridingVehicle # NullVehicle
              THEN LET vehicle == m0.ridingVehicle
                   IN IF vehicle.x + vehicle.width < MOTO_X
                      THEN [m0 EXCEPT !.isRidingVehicle = FALSE,
                                      !.ridingVehicle = NullVehicle,
                                      !.isJumping = TRUE,
                                      !.velocityY = 0]
                      ELSE [m0 EXCEPT !.y = vehicle.y - m0.height - RIDE_HEIGHT]
              ELSE m0
        \* handle ducking (only when not riding)
        m2 == IF ~m1.isRidingVehicle /\ s.keys["ArrowDown"] /\ ~m1.isJumping
              THEN [m1 EXCEPT !.isDucking = TRUE,
                              !.height = MOTO_DUCK_HEIGHT,
                              !.y = MotoGroundY + (MOTO_NORMAL_HEIGHT - MOTO_DUCK_HEIGHT)]
              ELSE IF ~m1.isJumping /\ ~m1.isRidingVehicle
              THEN [m1 EXCEPT !.isDucking = FALSE,
                              !.height = MOTO_NORMAL_HEIGHT,
                              !.y = MotoGroundY]
              ELSE m1
        \* apply gravity
        v3 == m2.velocityY + MOTO_GRAVITY
        y3 == m2.y + v3
        landed == m2.isJumping /\ y3 >= MotoGroundY
        m3 == IF ~m2.isJumping THEN m2
              ELSE IF landed
              THEN [m2 EXCEPT !.y = y3,
                              !.velocityY = 0,
                              !.isJumping = FALSE,
                              !.isRidingVehicle = FALSE,
                              !.ridingVehicle = NullVehicle]
              ELSE [m2 EXCEPT !.velocityY = v3, !.y = y3]
        la == IF landed THEN LANDING_FRAMES ELSE s.landingAnimation
    IN [s EXCEPT !.motorcycle = m3,
                 !.landingAnimation = IF la > 0 THEN la - 1 ELSE la]

\* updateMotorcycle whose gravity stops at the top of the jump
updateMotorcycle_Hover(s) ==
    LET m0 == s.motorcycle
        \* handle riding state
        m1 == IF m0.isRidingVehicle /\ m0.ridingVehicle # NullVehicle
              THEN LET vehicle == m0.ridingVehicle
                   IN IF vehicle.x + vehicle.width < MOTO_X
                      THEN [m0 EXCEPT !.isRidingVehicle = FALSE,
                                      !.ridingVehicle = NullVehicle,
                                      !.isJumping = TRUE,
                                      !.velocityY = 0]
                      ELSE [m0 EXCEPT !.y = vehicle.y - m0.height - RIDE_HEIGHT]
              ELSE m0
        \* handle ducking (only when not riding)
        m2 == IF ~m1.isRidingVehicle /\ s.keys["ArrowDown"] /\ ~m1.isJumping
              THEN [m1 EXCEPT !.isDucking = TRUE,
                              !.height = MOTO_DUCK_HEIGHT,
                              !.y = MotoGroundY + (MOTO_NORMAL_HEIGHT - MOTO_DUCK_HEIGHT)]
              ELSE IF ~m1.isJumping /\ ~m1.isRidingVehicle
              THEN [m1 EXCEPT !.isDucking = FALSE,
                              !.height = MOTO_NORMAL_HEIGHT,
                              !.y = MotoGroundY]
              ELSE m1
        \* apply gravity
        v3 == Min(m2.velocityY + MOTO_GRAVITY, 0)
        y3 == m2.y + v3
        landed == m2.isJumping /\ y3 >= MotoGroundY
        m3 == IF ~m2.isJumping THEN m2
              ELSE IF landed
              THEN [m2 EXCEPT !.y = MotoGroundY,
                              !.velocityY = 0,
                              !.isJumping = FALSE,
                              !.isRidingVehicle = FALSE,
                              !.ridingVehicle = NullVehicle]
              ELSE [m2 EXCEPT !.velocityY = v3, !.y = y3]
        la == IF landed THEN LANDING_FRAMES ELSE s.landingAnimation
    IN [s EXCEPT !.motorcycle = m3,
                 !.landingAnimation = IF la > 0 THEN la - 1 ELSE la]

\* updateMotorcycle that dismounts at the vehicle's right edge
updateMotorcycle_LeadingEdge(s) ==
    LET m0 == s.motorcycle
        \* handle riding state
        m1 == IF m0.isRidingVehicle /\ m0.ridingVehicle # NullVehicle
              THEN LET vehicle == m0.ridingVehicle
                   IN IF vehicle.x + vehicle.width < MOTO_X + MOTO_WIDTH
                      THEN [m0 EXCEPT !.isRidingVehicle = FALSE,
                                      !.ridingVehicle = NullVehicle,
                                      !.isJumping = TRUE,
                                      !.velocityY = 0]
                      ELSE [m0 EXCEPT !.y = vehicle.y - m0.height - RIDE_HEIGHT]
              ELSE m0
        \* handle ducking (only when not riding)
        m2 == IF ~m1.isRidingVehicle /\ s.keys["ArrowDown"] /\ ~m1.isJumping
              THEN [m1 EXCEPT !.isDucking = TRUE,
                              !.height = MOTO_DUCK_HEIGHT,
                              !.y = MotoGroundY + (MOTO_NORMAL_HEIGHT - MOTO_DUCK_HEIGHT)]
              ELSE IF ~m1.isJumping /\ ~m1.isRidingVehicle
              THEN [m1 EXCEPT !.isDucking = FALSE,
                              !.height = MOTO_NORMAL_HEIGHT,
                              !.y = MotoGroundY]
              ELSE m1
        \* apply gravity
        v3 == m2.velocityY + MOTO_GRAVITY
        y3 == m2.y + v3
        landed == m2.isJumping /\ y3 >= MotoGroundY
        m3 == IF ~m2.isJumping THEN m2
              ELSE IF landed
              THEN [m2 EXCEPT !.y = MotoGroundY,
                              !.velocityY = 0,
                              !.isJumping = FALSE,
                              !.isRidingVehicle = FALSE,
                              !.ridingVehicle = NullVehicle]
              ELSE [m2 EXCEPT !.velocityY = v3, !.y = y3]
        la == IF landed THEN LANDING_FRAMES ELSE s.landingAnimation
    IN [s EXCEPT !.motorcycle = m3,
                 !.landingAnimation = IF la > 0 THEN la - 1 ELSE la]

\* updateMotorcycle (game.js 558-611)
updateMotorcycle(s) ==
    LET m0 == s.motorcycle
        \* handle riding state
        m1 == IF m0.isRidingVehicle /\ m0.ridingVehicle # NullVehicle
              THEN LET vehicle == m0.ridingVehicle
                   IN IF vehicle.x + vehicle.width < MOTO_X
                      THEN [m0 EXCEPT !.isRidingVehicle = FALSE,
                                      !.ridingVehicle = NullVehicle,
                                      !.isJumping = TRUE,
                                      !.velocityY = 0]
                      ELSE [m0 EXCEPT !.y = vehicle.y - m0.height - RIDE_HEIGHT]
              ELSE m0
        \* handle ducking (only when not riding)
        m2 == IF ~m1.isRidingVehicle /\ s.keys["ArrowDown"] /\ ~m1.isJumping
              THEN [m1 EXCEPT !.isDucking = TRUE,
                              !.height = MOTO_DUCK_HEIGHT,
                              !.y = MotoGroundY + (MOTO_NORMAL_HEIGHT - MOTO_DUCK_HEIGHT)]
              ELSE IF ~m1.isJumping /\ ~m1.isRidingVehicle
              THEN [m1 EXCEPT !.isDucking = FALSE,
                              !.height = MOTO_NORMAL_HEIGHT,
                              !.y = MotoGroundY]
              ELSE m1
        \* apply gravity
        v3 == m2.velocityY + MOTO_GRAVITY
        y3 == m2.y + v3
        landed == m2.isJumping /\ y3 >= MotoGroundY
        m3 == IF ~m2.isJumping THEN m2
              ELSE IF landed
              THEN [m2 EXCEPT !.y = MotoGroundY,
                              !.velocityY = 0,
                              !.isJumping = FALSE,
                              !.isRidingVehicle = FALSE,
                              !.ridingVehicle = NullVehicle]
              ELSE [m2 EXCEPT !.velocityY = v3, !.y = y3]
        la == IF landed THEN LANDING_FRAMES ELSE s.landingAnimation
    IN [s EXCEPT !.motorcycle = m3,
                 !.landingAnimation = IF la > 0 THEN la - 1 ELSE la]

RECURSIVE updateGround_NoCredit(_, _)
\* the ground loop that removes an obstacle past the left edge without points
updateGround_NoCredit(s, i) ==
    IF i = 0 THEN s
    ELSE LET o  == [s.obstacles[i] EXCEPT !.x = @ - s.gameSpeed]
             rv == s.motorcycle.ridingVehicle
             s1 == [s EXCEPT !.obstacles[i] = o,
                             !.motorcycle.ridingVehicle =
                                 IF rv.id = o.id THEN o ELSE rv]
         IN IF o.x + o.width < 0
            THEN updateGround_NoCredit(
                   [s1 EXCEPT
                      !.obstacles = SubSeq(@, 1, i - 1) \o SubSeq(@, i + 1, Len(@)),
                      !.credited = Append(@, o.id)],
                   i - 1)
            ELSE updateGround_NoCredit(s1, i - 1)

RECURSIVE updateGround_LeftEdge(_, _)
\* the ground loop that removes an obstacle as soon as its left edge is off
\* screen (x < 0 instead of x + width < 0)
updateGround_LeftEdge(s, i) ==
    IF i = 0 THEN s
    ELSE LET o  == [s.obstacles[i] EXCEPT !.x = @ - s.gameSpeed]
             rv == s.motorcycle.ridingVehicle
             s1 == [s EXCEPT !.obstacles[i] = o,
                             !.motorcycle.ridingVehicle =
                                 IF rv.id = o.id THEN o ELSE rv]
         IN IF o.x < 0
            THEN updateGround_LeftEdge(
                   [s1 EXCEPT
                      !.obstacles = SubSeq(@, 1, i - 1) \o SubSeq(@, i + 1, Len(@)),
                      !.score = @ + (IF o.rideable THEN RIDEABLE_VEHICLE_POINTS
                                                   ELSE VEHICLE_POINTS),
                      !.credited = Append(@, o.id)],
                   i - 1)
            ELSE updateGround_LeftEdge(s1, i - 1)

RECURSIVE updateGround(_, _)
\* updateObstacles, the ground loop (game.js 533-542), from index i down to 1.
\* motorcycle.ridingVehicle refers to an element of the array, so it sees the
\* element move; once the element is spliced out the object moves no more.
updateGround(s, i) ==
    IF i = 0 THEN s
    ELSE LET o  == [s.obstacles[i] EXCEPT !.x = @ - s.gameSpeed]
             rv == s.motorcycle.ridingVehicle
             s1 == [s EXCEPT !.obstacles[i] = o,
                             !.motorcycle.ridingVehicle =
                                 IF rv.id = o.id THEN o ELSE rv]
         IN IF o.x + o.width < 0
            THEN updateGround(
                   [s1 EXCEPT
                      !.obstacles = SubSeq(@, 1, i - 1) \o SubSeq(@, i + 1, Len(@)),
                      !.score = @ + (IF o.rideable THEN RIDEABLE_VEHICLE_POINTS
                                                   ELSE VEHICLE_POINTS),
                      !.credited = Append(@, o.id)],
                   i - 1)
            ELSE updateGround(s1, i - 1)

RECURSIVE updateFlying(_, _)
\* updateObstacles, the flying loop (game.js 545-555)
updateFlying(s, i) ==
    IF i = 0 THEN s
    ELSE LET o == [s.flyingObstacles[i] EXCEPT
                      !.x = @ - (s.gameSpeed * FLYING_SPEED_NUM) \div FLYING_SPEED_DEN,
                      !.wingFrame = (s.frameCount \div BIRD_WING_FLAP_FRAME_INTERVAL) % 2]
             s1 == [s EXCEPT !.flyingObstacles[i] = o]
         IN IF o.x + o.width < 0
            THEN updateFlying(
                   [s1 EXCEPT
                      !.flyingObstacles = SubSeq(@, 1, i - 1) \o SubSeq(@, i + 1, Len(@)),
                      !.score = @ + FLYING_OBSTACLE_POINTS,
                      !.credited = Append(@, o.id)],
                   i - 1)
            ELSE updateFlying(s1, i - 1)

updateObstacles(s) ==
    LET g == updateGround(s, Len(s.obstacles))
    IN updateFlying(g, Len(g.flyingObstacles))


\* ------------------------------------------------------------ spawning
\* every type at every score
availableTypes_All(s) == { obstacleTypes[i] : i \in DOMAIN obstacleTypes }

\* the types spawnObstacle may choose from (game.js 468-475)
availableTypes(s) ==
    IF s.score >= RIDEABLE_VEHICLE_MIN_SCORE
    THEN { obstacleTypes[i] : i \in DOMAIN obstacleTypes }
    ELSE { obstacleTypes[i] : i \in { j \in DOMAIN obstacleTypes : ~obstacleTypes[j].rideable } }

\* What one call of spawnObstacle draws at random: the ground type and the
\* next ground interval, the flying height and the next flying interval.
NoDraw == [type |-> obstacleTypes[1], groundInterval |-> 0, yOffset |-> 0, flyingInterval |-> 0]

\* the ground branch that does not reschedule a suppressed spawn
spawnGround_NoRetry(s, d) ==
    IF HF * s.frameCount >= s.nextGroundObstacleFrame
    THEN IF ~isObstacleTooClose(s.flyingObstacles, s.canvasWidth)
         THEN LET dims == getSpriteDimensions(d.type.sprite)
              IN [s EXCEPT
                    !.obstacles = Append(@,
                        [id |-> 2 * s.frameCount,
                         x |-> s.canvasWidth,
                         y |-> groundY - dims.height,
                         width |-> dims.width,
                         height |-> dims.height,
                         sprite |-> d.type.sprite,
                         rideable |-> d.type.rideable]),
                    !.groundObstacleInterval = d.groundInterval,
                    !.nextGroundObstacleFrame = HF * s.frameCount + d.groundInterval]
         ELSE s
    ELSE s

\* spawnObstacle, the ground branch (game.js 464-501)
spawnGround(s, d) ==
    IF HF * s.frameCount >= s.nextGroundObstacleFrame
    THEN IF ~isObstacleTooClose(s.flyingObstacles, s.canvasWidth)
         THEN LET dims == getSpriteDimensions(d.type.sprite)
              IN [s EXCEPT
                    !.obstacles = Append(@,
                        [id |-> 2 * s.frameCount,
                         x |-> s.canvasWidth,
                         y |-> groundY - dims.height,
                         width |-> dims.width,
                         height |-> dims.height,
                         sprite |-> d.type.sprite,
                         rideable |-> d.type.rideable]),
                    !.groundObstacleInterval = d.groundInterval,
                    !.nextGroundObstacleFrame = HF * s.frameCount + d.groundInterval]
         ELSE [s EXCEPT !.nextGroundObstacleFrame = HF * s.frameCount + OBSTACLE_RETRY_DELAY]
    ELSE s

\* the flying branch without the score gate
spawnFlying_NoGate(s, d) ==
    IF HF * s.frameCount >= s.nextFlyingObstacleFrame
    THEN IF ~isObstacleTooClose(s.obstacles, s.canvasWidth)
         THEN LET dims == getSpriteDimensions("BIRD_UP")
              IN [s EXCEPT
                    !.flyingObstacles = Append(@,
                        [id |-> 2 * s.frameCount + 1,
                         x |-> s.canvasWidth,
                         y |-> groundY + d.yOffset,
                         width |-> dims.width,
                         height |-> dims.height,
                         wingFrame |-> 0]),
                    !.flyingObstacleInterval = d.flyingInterval,
                    !.nextFlyingObstacleFrame = HF * s.frameCount + d.flyingInterval]
         ELSE [s EXCEPT !.nextFlyingObstacleFrame = HF * s.frameCount + OBSTACLE_RETRY_DELAY]
    ELSE s

\* spawnObstacle, the flying branch (game.js 503-528)
spawnFlying(s, d) ==
    IF s.score > FLYING_OBSTACLE_MIN_SCORE /\ HF * s.frameCount >= s.nextFlyingObstacleFrame
    THEN IF ~isObstacleTooClose(s.obstacles, s.canvasWidth)
         THEN LET dims == getSpriteDimensions("BIRD_UP")
              IN [s EXCEPT
                    !.flyingObstacles = Append(@,
                        [id |-> 2 * s.frameCount + 1,
                         x |-> s.canvasWidth,
                         y |-> groundY + d.yOffset,
                         width |-> dims.width,
                         height |-> dims.height,
                         wingFrame |-> 0]),
                    !.flyingObstacleInterval = d.flyingInterval,
                    !.nextFlyingObstacleFrame = HF * s.frameCount + d.flyingInterval]
         ELSE [s EXCEPT !.nextFlyingObstacleFrame = HF * s.frameCount + OBSTACLE_RETRY_DELAY]
    ELSE s

spawnObstacle(s, d) == spawnFlying(spawnGround(s, d), d)

\* The draws a call of spawnObstacle in state s makes; a value that is not
\* drawn is fixed, so that a tick has one successor per real outcome.
DrawsFor(s) ==
    LET g == spawnGround(s, NoDraw)
        groundSpawns == Len(g.obstacles) > Len(s.obstacles)
        flyingSpawns == Len(spawnFlying(g, NoDraw).flyingObstacles) > Len(g.flyingObstacles)
    IN { [type |-> ty, groundInterval |-> gi, yOffset |-> yo, flyingInterval |-> fi] :
           ty \in (IF groundSpawns THEN availableTypes(s) ELSE { NoDraw.type }),
           gi \in (IF groundSpawns
                   THEN calculateSpawnInterval(s.frameCount,
                            OBSTACLE_MIN_INTERVAL, OBSTACLE_MAX_INTERVAL,
                            OBSTACLE_MIN_INTERVAL_CAP, GROUND_INTERVAL_MIN_SPACING)
                   ELSE { NoDraw.groundInterval }),
           yo \in (IF flyingSpawns
                   THEN { heightVariations[i] : i \in DOMAIN heightVariations }
                   ELSE { NoDraw.yOffset }),
           fi \in (IF flyingSpawns
                   THEN calculateSpawnInterval(s.frameCount,
                            FLYING_OBSTACLE_MIN_INTERVAL, FLYING_OBSTACLE_MAX_INTERVAL,
                            FLYING_INTERVAL_MIN_CAP, FLYING_INTERVAL_MIN_SPACING)
                   ELSE { NoDraw.flyingInterval }) }

\* ------------------------------------------------------------ particles
\* A particle is kept by its remaining life; its position is only drawn.
spawnDustParticle(s) ==
    IF s.frameCount % PARTICLE_SPAWN_INTERVAL = 0 /\ ~s.motorcycle.isJumping
    THEN [s EXCEPT !.particles = Append(@, PARTICLE_LIFE)]
    ELSE s

RECURSIVE AgeParticles(_)
AgeParticles(ps) ==
    IF ps = << >> THEN << >>
    ELSE IF Head(ps) - 1 > 0
         THEN << Head(ps) - 1 >> \o AgeParticles(Tail(ps))
         ELSE AgeParticles(Tail(ps))

updateParticles(s) == [s EXCEPT !.particles = AgeParticles(@)]

\* ------------------------------------------------------------ collisions
\* gameOver that stores the score of every game as the high score
gameOver_AlwaysStores(s) ==
    [s EXCEPT !.gameState = GAME_OVER,
              !.collisionFlash = COLLISION_FLASH_DURATION,
              !.highScore = s.score,
              !.stored = NumToStr(s.score)]

\* gameOver (game.js 655-667)
gameOver(s) ==
    LET s1 == [s EXCEPT !.gameState = GAME_OVER,
                        !.collisionFlash = COLLISION_FLASH_DURATION]
    IN IF s.score > s.highScore
       THEN [s1 EXCEPT !.highScore = s.score, !.stored = NumToStr(s.score)]
       ELSE s1

RECURSIVE checkFlying(_, _, _)
\* checkCollisions, the flying loop (game.js 647-652)
checkFlying(s, motorHitbox, i) ==
    IF i > Len(s.flyingObstacles) THEN s
    ELSE IF checkAABBCollision(motorHitbox, s.flyingObstacles[i])
         THEN gameOver(s)
         ELSE checkFlying(s, motorHitbox, i + 1)

RECURSIVE checkGround_CollisionFirst(_, _, _)
\* the ground loop with the bounding-box test ahead of the landing test
checkGround_CollisionFirst(s, motorHitbox, i) ==
    IF i > Len(s.obstacles) THEN checkFlying(s, motorHitbox, 1)
    ELSE LET obstacle == s.obstacles[i]
             m == s.motorcycle
             landingOnTop ==
                 /\ obstacle.rideable
                 /\ m.isJumping
                 /\ m.velocityY > 0
                 /\ motorHitbox.x + motorHitbox.width > obstacle.x
                 /\ motorHitbox.x < obstacle.x + obstacle.width
                 /\ motorHitbox.y + motorHitbox.height <= obstacle.y + LAND_BELOW
                 /\ motorHitbox.y + motorHitbox.height >= obstacle.y - LAND_ABOVE
         IN IF ~m.isRidingVehicle /\ checkAABBCollision(motorHitbox, obstacle)
            THEN gameOver(s)
            ELSE IF landingOnTop
                 THEN checkGround_CollisionFirst(
                        [s EXCEPT !.motorcycle.isRidingVehicle = TRUE,
                                  !.motorcycle.ridingVehicle = obstacle,
                                  !.motorcycle.isJumping = FALSE,
                                  !.motorcycle.velocityY = 0],
                        motorHitbox, i + 1)
                 ELSE checkGround_CollisionFirst(s, motorHitbox, i + 1)

RECURSIVE checkGround_NarrowBand(_, _, _)
\* the ground loop with a landing band that ends at the obstacle's top
checkGround_NarrowBand(s, motorHitbox, i) ==
    IF i > Len(s.obstacles) THEN checkFlying(s, motorHitbox, 1)
    ELSE LET obstacle == s.obstacles[i]
             m == s.motorcycle
             landingOnTop ==
                 /\ obstacle.rideable
                 /\ m.isJumping
                 /\ m.velocityY > 0
                 /\ motorHitbox.x + motorHitbox.width > obstacle.x
                 /\ motorHitbox.x < obstacle.x + obstacle.width
                 /\ motorHitbox.y + motorHitbox.height <= obstacle.y
                 /\ motorHitbox.y + motorHitbox.height >= obstacle.y - LAND_ABOVE
         IN IF landingOnTop
            THEN checkGround_NarrowBand(
                   [s EXCEPT !.motorcycle.isRidingVehicle = TRUE,
                             !.motorcycle.ridingVehicle = obstacle,
                             !.motorcycle.isJumping = FALSE,
                             !.motorcycle.velocityY = 0],
                   motorHitbox, i + 1)
            ELSE IF ~m.isRidingVehicle /\ checkAABBCollision(motorHitbox, obstacle)
                 THEN gameOver(s)
                 ELSE checkGround_NarrowBand(s, motorHitbox, i + 1)

RECURSIVE checkGround(_, _, _)
\* checkCollisions, the ground loop (game.js 617-644)
checkGround(s, motorHitbox, i) ==
    IF i > Len(s.obstacles) THEN checkFlying(s, motorHitbox, 1)
    ELSE LET obstacle == s.obstacles[i]
             m == s.motorcycle
             landingOnTop ==
                 /\ obstacle.rideable
                 /\ m.isJumping
                 /\ m.velocityY > 0
                 /\ motorHitbox.x + motorHitbox.width > obstacle.x
                 /\ motorHitbox.x < obstacle.x + obstacle.width
                 /\ motorHitbox.y + motorHitbox.height <= obstacle.y + LAND_BELOW
                 /\ motorHitbox.y + motorHitbox.height >= obstacle.y - LAND_ABOVE
         IN IF landingOnTop
            THEN checkGround(
                   [s EXCEPT !.motorcycle.isRidingVehicle = TRUE,
                             !.motorcycle.ridingVehicle = obstacle,
                             !.motorcycle.isJumping = FALSE,
                             !.motorcycle.velocityY = 0],
                   motorHitbox, i + 1)
            ELSE IF ~m.isRidingVehicle /\ checkAABBCollision(motorHitbox, obstacle)
                 THEN gameOver(s)
                 ELSE checkGround(s, motorHitbox, i + 1)

checkCollisions(s) == checkGround(s, getMotorcycleHitbox(s.motorcycle), 1)

\* ------------------------------------------------------------ update
\* the phases before spawnObstacle with the speed capped after two increases
beforeSpawn_SpeedCapped(s) ==
    LET s1 == updateDayNightCycle([s EXCEPT !.frameCount = @ + 1])
        s2 == IF s1.frameCount % SURVIVAL_FRAMES = 0
              THEN [s1 EXCEPT !.score = @ + 1] ELSE s1
        s3 == IF s2.frameCount % SPEED_INCREASE_INTERVAL = 0
              THEN [s2 EXCEPT !.gameSpeed =
                       Min(@ + SPEED_INCREMENT, INITIAL_SPEED + 2 * SPEED_INCREMENT)]
              ELSE s2
    IN updateObstacles(updateMotorcycle(s3))

\* the phases before spawnObstacle with the obstacles advanced ahead of the
\* vehicle update
beforeSpawn_AdvanceFirst(s) ==
    LET s1 == updateDayNightCycle([s EXCEPT !.frameCount = @ + 1])
        s2 == IF s1.frameCount % SURVIVAL_FRAMES = 0
              THEN [s1 EXCEPT !.score = @ + 1] ELSE s1
        s3 == IF s2.frameCount % SPEED_INCREASE_INTERVAL = 0
              THEN [s2 EXCEPT !.gameSpeed = @ + SPEED_INCREMENT] ELSE s2
    IN updateMotorcycle(updateObstacles(s3))

\* update, the phases before spawnObstacle (game.js 906-922)
beforeSpawn(s) ==
    LET s1 == updateDayNightCycle([s EXCEPT !.frameCount = @ + 1])
        s2 == IF s1.frameCount % SURVIVAL_FRAMES = 0
              THEN [s1 EXCEPT !.score = @ + 1] ELSE s1
        s3 == IF s2.frameCount % SPEED_INCREASE_INTERVAL = 0
              THEN [s2 EXCEPT !.gameSpeed = @ + SPEED_INCREMENT] ELSE s2
    IN updateObstacles(updateMotorcycle(s3))

\* update without the state check of its first line
update_NoStateCheck(s, d) ==
    checkCollisions(updateParticles(spawnDustParticle(
        spawnObstacle(beforeSpawn(s), d))))

\* update that returns early only in the Waiting state
update_AfterGameOver(s, d) ==
    IF s.gameState = WAITING THEN s
    ELSE checkCollisions(updateParticles(spawnDustParticle(
             spawnObstacle(beforeSpawn(s), d))))

\* update (game.js 903-927)
update(s, d) ==
    IF s.gameState # PLAYING THEN s
    ELSE checkCollisions(updateParticles(spawnDustParticle(
             spawnObstacle(beforeSpawn(s), d))))

\* draw (game.js 879-901): what it changes is drawMotorcycle's flash counter
\* (game.js 685-690), on the waiting screen as on the game screen
draw(s) ==
    IF s.collisionFlash > 0 THEN [s EXCEPT !.collisionFlash = @ - 1] ELSE s

\* gameLoop that requests the next frame whatever the state
gameLoop_AlwaysRequests(s, d) ==
    [draw(update(s, d)) EXCEPT !.pending = @ + 1]

\* gameLoop (game.js 964-971)
gameLoop(s, d) ==
    LET u == draw(update(s, d))
    IN IF u.gameState = PLAYING THEN [u EXCEPT !.pending = @ + 1] ELSE u

\* the draws of the tick gameLoop runs from state s
TickDraws(s) ==
    IF s.gameState = PLAYING THEN DrawsFor(beforeSpawn(s)) ELSE { NoDraw }


\* ------------------------------------------------------------ startGame
\* the assignments of startGame without particles = []
resetSession_KeepsParticles(s) ==
    [s EXCEPT
       !.gameState = PLAYING,
       !.score = 0,
       !.frameCount = 0,
       !.sunX = s.canvasWidth - SUN_START_X,
       !.isNightMode = FALSE,
       !.skyTransition = 0,
       !.stars = 0,
       !.gameSpeed = INITIAL_SPEED,
       !.obstacles = << >>,
       !.flyingObstacles = << >>,
       !.collisionFlash = 0,
       !.landingAnimation = 0,
       !.motorcycle.y = MotoGroundY,
       !.motorcycle.velocityY = 0,
       !.motorcycle.isJumping = FALSE,
       !.motorcycle.isDucking = FALSE,
       !.motorcycle.height = MOTO_NORMAL_HEIGHT,
       !.motorcycle.isRidingVehicle = FALSE,
       !.motorcycle.ridingVehicle = NullVehicle,
       !.nextGroundObstacleFrame = OBSTACLE_MAX_INTERVAL,
       !.nextFlyingObstacleFrame = FLYING_OBSTACLE_MAX_INTERVAL + HF * FLYING_OBSTACLE_MIN_SCORE,
       !.groundObstacleInterval = OBSTACLE_MAX_INTERVAL,
       !.flyingObstacleInterval = FLYING_OBSTACLE_MAX_INTERVAL,
       !.credited = << >>,
       !.sessions = @ + 1]

\* the assignments of startGame with the first ground obstacle due after the
\* minimum interval instead of the maximum
resetSession_MinInterval(s) ==
    [s EXCEPT
       !.gameState = PLAYING,
       !.score = 0,
       !.frameCount = 0,
       !.sunX = s.canvasWidth - SUN_START_X,
       !.isNightMode = FALSE,
       !.skyTransition = 0,
       !.stars = 0,
       !.gameSpeed = INITIAL_SPEED,
       !.obstacles = << >>,
       !.flyingObstacles = << >>,
       !.particles = << >>,
       !.collisionFlash = 0,
       !.landingAnimation = 0,
       !.motorcycle.y = MotoGroundY,
       !.motorcycle.velocityY = 0,
       !.motorcycle.isJumping = FALSE,
       !.motorcycle.isDucking = FALSE,
       !.motorcycle.height = MOTO_NORMAL_HEIGHT,
       !.motorcycle.isRidingVehicle = FALSE,
       !.motorcycle.ridingVehicle = NullVehicle,
       !.nextGroundObstacleFrame = OBSTACLE_MIN_INTERVAL,
       !.nextFlyingObstacleFrame = FLYING_OBSTACLE_MAX_INTERVAL + HF * FLYING_OBSTACLE_MIN_SCORE,
       !.groundObstacleInterval = OBSTACLE_MAX_INTERVAL,
       !.flyingObstacleInterval = FLYING_OBSTACLE_MAX_INTERVAL,
       !.credited = << >>,
       !.sessions = @ + 1]

\* the assignments of startGame (game.js 431-456)
resetSession(s) ==
    [s EXCEPT
       !.gameState = PLAYING,
       !.score = 0,
       !.frameCount = 0,
       !.sunX = s.canvasWidth - SUN_START_X,
       !.isNightMode = FALSE,
       !.skyTransition = 0,
       !.stars = 0,
       !.gameSpeed = INITIAL_SPEED,
       !.obstacles = << >>,
       !.flyingObstacles = << >>,
       !.particles = << >>,
       !.collisionFlash = 0,
       !.landingAnimation = 0,
       !.motorcycle.y = MotoGroundY,
       !.motorcycle.velocityY = 0,
       !.motorcycle.isJumping = FALSE,
       !.motorcycle.isDucking = FALSE,
       !.motorcycle.height = MOTO_NORMAL_HEIGHT,
       !.motorcycle.isRidingVehicle = FALSE,
       !.motorcycle.ridingVehicle = NullVehicle,
       !.nextGroundObstacleFrame = OBSTACLE_MAX_INTERVAL,
       !.nextFlyingObstacleFrame = FLYING_OBSTACLE_MAX_INTERVAL + HF * FLYING_OBSTACLE_MIN_SCORE,
       !.groundObstacleInterval = OBSTACLE_MAX_INTERVAL,
       !.flyingObstacleInterval = FLYING_OBSTACLE_MAX_INTERVAL,
       !.credited = << >>,
       !.sessions = @ + 1]

\* the session fields, as one value
SessionSnapshot(s) ==
    [gameState |-> s.gameState, score |-> s.score, frameCount |-> s.frameCount,
     gameSpeed |-> s.gameSpeed, obstacles |-> s.obstacles,
     flyingObstacles |-> s.flyingObstacles, particles |-> s.particles,
     collisionFlash |-> s.collisionFlash, landingAnimation |-> s.landingAnimation,
     motorcycle |-> s.motorcycle,
     sunX |-> s.sunX, isNightMode |-> s.isNightMode,
     skyTransition |-> s.skyTransition, stars |-> s.stars,
     nextGroundObstacleFrame |-> s.nextGroundObstacleFrame,
     nextFlyingObstacleFrame |-> s.nextFlyingObstacleFrame,
     groundObstacleInterval |-> s.groundObstacleInterval,
     flyingObstacleInterval |-> s.flyingObstacleInterval]

NoSnapshot == [gameState |-> "none"]

\* startGame without the orientation check of its first lines
startGame_AnyOrientation(s, d) ==
    LET r == resetSession(s)
    IN gameLoop([r EXCEPT !.resetSnap = SessionSnapshot(r)], d)

\* startGame (game.js 425-460)
startGame(s, d) ==
    LET c == checkOrientation(s)
    IN IF ~isLandscape(s) THEN c
       ELSE LET r == resetSession(c)
            IN gameLoop([r EXCEPT !.resetSnap = SessionSnapshot(r)], d)

\* the draws of the tick that startGame's gameLoop() runs
StartDraws(s) ==
    IF isLandscape(s) THEN TickDraws(resetSession(checkOrientation(s))) ELSE { NoDraw }

\* ------------------------------------------------------------ handlers
\* keydown handler (game.js 358-375): d is the draw of the tick startGame runs
keydown(s, code, d) ==
    LET s1 == SetKey(s, code, TRUE)
        s2 == IF s1.gameState = WAITING /\ code = "Space"
              THEN startGame(s1, d) ELSE s1
    IN IF s2.gameState = PLAYING /\ code \in { "Space", "ArrowUp" }
       THEN performJump(s2) ELSE s2

\* keyup handler (game.js 377-379)
keyup(s, code) == SetKey(s, code, FALSE)

\* touchstart handler (game.js 384-410); bottom: the touch is in the lower half
touchstart(s, bottom, d) ==
    IF s.gameState = WAITING THEN startGame(s, d)
    ELSE IF s.gameState = PLAYING
    THEN IF bottom
         THEN IF ~s.motorcycle.isJumping
              THEN [s EXCEPT !.isTouchDucking = TRUE, !.keys["ArrowDown"] = TRUE]
              ELSE s
         ELSE performJump(s)
    ELSE s

\* touchend handler (game.js 412-419)
touchend(s) ==
    IF s.isTouchDucking
    THEN [s EXCEPT !.keys["ArrowDown"] = FALSE, !.isTouchDucking = FALSE]
    ELSE s

\* ------------------------------------------------------------ Init
StoredItems == { NoItem, << "2", "5" >> }

GameInit(width, mobiles, items) ==
    /\ gameState = WAITING
    /\ score = 0
    /\ stored \in items
    /\ highScore = ParseHighScore(stored)
    /\ frameCount = 0
    /\ gameSpeed = INITIAL_SPEED
    /\ collisionFlash = 0
    /\ landingAnimation = 0
    /\ nextGroundObstacleFrame = 0
    /\ nextFlyingObstacleFrame = 0
    /\ groundObstacleInterval = OBSTACLE_MAX_INTERVAL
    /\ flyingObstacleInterval = FLYING_OBSTACLE_MAX_INTERVAL
    /\ motorcycle = [y |-> MotoGroundY, height |-> MOTO_NORMAL_HEIGHT,
                     velocityY |-> 0, isJumping |-> FALSE, isDucking |-> FALSE,
                     isRidingVehicle |-> FALSE, ridingVehicle |-> NullVehicle]
    /\ obstacles = << >>
    /\ flyingObstacles = << >>
    /\ particles = << >>
    /\ sunX = 100 * PX
    /\ isNightMode = FALSE
    /\ skyTransition = 0
    /\ stars = 0
    /\ keys = [k \in TrackedKeys |-> FALSE]
    /\ isTouchDucking = FALSE
    /\ pending = 0
    /\ isMobile \in mobiles
    /\ landscape \in (IF isMobile THEN BOOLEAN ELSE { TRUE })
    /\ canvasWidth = width
    /\ credited = << >>
    /\ sessions = 0
    /\ resetSnap = NoSnapshot

InitWith(width, mobiles, items) ==
    /\ GameInit(width, mobiles, items)
    /\ page = NoPage

Init == InitWith(CanvasWidthPx * PX, BOOLEAN, StoredItems)

\* ------------------------------------------------------------ actions
\* The environment: a desktop is played with the keyboard and the mouse, a
\* mobile with the touch screen.
HasKeyboard == ~isMobile
HasTouch == isMobile

\* a handler that calls startGame is taken while fewer than MaxPending
\* animation-frame callbacks are queued and fewer than MaxSessions sessions
\* have been started
MayStart == pending < MaxPending /\ sessions < MaxSessions

\* the first session is followed for maxFrame frames, a later one for
\* MaxFrameRestart frames
FrameCap(maxFrame) == IF sessions <= 1 THEN maxFrame ELSE MaxFrameRestart

\* keydown handler (game.js 358-375)
KeyDown(code) ==
    LET starts == gameState = WAITING /\ code = "Space"
    IN /\ HasKeyboard
       /\ starts => MayStart
       /\ \E d \in (IF starts THEN StartDraws(SetKey(St, code, TRUE)) ELSE { NoDraw }) :
            Commit(keydown(St, code, d))

\* keyup handler (game.js 377-379)
KeyUp(code) == HasKeyboard /\ Commit(keyup(St, code))

\* touchstart handler (game.js 384-410); bottom: the touch is in the lower half
TouchStart(bottom) ==
    /\ HasTouch
    /\ gameState = WAITING => MayStart
    /\ \E d \in (IF gameState = WAITING THEN StartDraws(St) ELSE { NoDraw }) :
         Commit(touchstart(St, bottom, d))

\* touchend handler (game.js 412-419)
TouchEnd == HasTouch /\ Commit(touchend(St))

\* restart button click handler (game.js 421-423)
RestartClick ==
    /\ MayStart
    /\ \E d \in StartDraws(St) : Commit(startGame(St, d))

\* orientationchange handler (game.js 978): a mobile is turned to landscape
\* or to portrait and checkOrientation runs
OrientationChange(l) ==
    /\ isMobile
    /\ Commit(checkOrientation([St EXCEPT !.landscape = l]))

\* resize handler (game.js 979): checkOrientation runs
Resize == Commit(checkOrientation(St))

\* the draws the long run follows: the shortest intervals, and one type of
\* each kind
DenseDraw(d) ==
    /\ d.type.sprite \in { "CAR", "BUS" }
    /\ d.groundInterval <= OBSTACLE_MIN_INTERVAL
    /\ d.flyingInterval <= FLYING_OBSTACLE_MIN_INTERVAL

\* a queued requestAnimationFrame callback runs gameLoop; dense: only the
\* dense draws are followed
AnimationFrame(maxFrame, dense) ==
    /\ pending > 0
    /\ gameState = PLAYING => frameCount < FrameCap(maxFrame)
    /\ LET s0 == [St EXCEPT !.pending = @ - 1]
       IN \E d \in { x \in TickDraws(s0) : dense => DenseDraw(x) } :
            Commit(gameLoop(s0, d))

Next ==
    \/ \E code \in KeyCodes : KeyDown(code)
    \/ \E code \in KeyCodes : KeyUp(code)
    \/ \E bottom \in BOOLEAN : TouchStart(bottom)
    \/ TouchEnd
    \/ RestartClick
    \/ \E l \in BOOLEAN : OrientationChange(l)
    \/ Resize
    \/ AnimationFrame(MaxFrame, FALSE)

Spec == Init /\ [][Next]_vars

\* A long session on a desktop: the keyboard, the restart button and resize
\* events, with the dense draws, followed for MaxFrameRun frames.
InitRun == InitWith(CanvasWidthPx * PX, { FALSE }, { NoItem })

NextRun ==
    \/ \E code \in KeyCodes : KeyDown(code)
    \/ \E code \in KeyCodes : KeyUp(code)
    \/ RestartClick
    \/ Resize
    \/ AnimationFrame(MaxFrameRun, TRUE)

SpecRun == InitRun /\ [][NextRun]_vars

\* The idle scenario: the session is started with the restart button and no
\* key is pressed, on the 800-pixel canvas, for IdleTicks ticks.
InitIdle == InitWith(ScenarioCanvasWidthPx * PX, { FALSE }, { NoItem })

NextIdle ==
    \/ sessions = 0 /\ RestartClick
    \/ AnimationFrame(IdleTicks, FALSE)

SpecIdle == InitIdle /\ [][NextIdle]_vars

\* Page load with any stored item: the strings of up to MaxItemLen characters
\* of ItemChars, or no item; then one idle session on a desktop.
ItemChars == { "0", "2", "5", "-", " ", ".", "x" }

ItemsOfLen(n) == [1..n -> ItemChars]

LoadItems == { NoItem } \cup UNION { ItemsOfLen(n) : n \in 1..MaxItemLen }

InitLoad == InitWith(CanvasWidthPx * PX, { FALSE }, LoadItems)

NextLoad ==
    \/ sessions = 0 /\ RestartClick
    \/ AnimationFrame(MaxFrame, FALSE)

SpecLoad == InitLoad /\ [][NextLoad]_vars

\* Spawning at any difficulty: a session on a desktop that has reached frame
\* 300 k (k up to MaxSpeedFactor) with the road clear and the spawn of one
\* class due, followed without input for IntervalTicks ticks.  The fields spawnObstacle does not read
\* are at their reset values.
MidSession(k, groundDue) ==
    LET f == SPEED_INCREASE_INTERVAL * k
    IN /\ gameState = PLAYING
       /\ score = f \div SURVIVAL_FRAMES + VEHICLE_POINTS * 3
       /\ stored = NoItem
       /\ highScore = 0
       /\ frameCount = f
       /\ gameSpeed = INITIAL_SPEED + k * SPEED_INCREMENT
       /\ collisionFlash = 0
       /\ landingAnimation = 0
       /\ nextGroundObstacleFrame =
              HF * f + (IF groundDue THEN 0 ELSE OBSTACLE_MAX_INTERVAL)
       /\ nextFlyingObstacleFrame =
              HF * f + (IF groundDue THEN FLYING_OBSTACLE_MAX_INTERVAL ELSE 0)
       /\ groundObstacleInterval = OBSTACLE_MAX_INTERVAL
       /\ flyingObstacleInterval = FLYING_OBSTACLE_MAX_INTERVAL
       /\ motorcycle = [y |-> MotoGroundY, height |-> MOTO_NORMAL_HEIGHT,
                        velocityY |-> 0, isJumping |-> FALSE, isDucking |-> FALSE,
                        isRidingVehicle |-> FALSE, ridingVehicle |-> NullVehicle]
       /\ obstacles = << >>
       /\ flyingObstacles = << >>
       /\ particles = << >>
       /\ sunX = CanvasWidthPx * PX - SUN_START_X
       /\ isNightMode = FALSE
       /\ skyTransition = 0
       /\ stars = 0
       /\ keys = [key \in TrackedKeys |-> FALSE]
       /\ isTouchDucking = FALSE
       /\ pending = 1
       /\ isMobile = FALSE
       /\ landscape = TRUE
       /\ canvasWidth = CanvasWidthPx * PX
       /\ credited = << >>
       /\ sessions = 1
       /\ resetSnap = NoSnapshot
       /\ page = NoPage

InitInterval == \E k \in 1 .. MaxSpeedFactor : \E groundDue \in BOOLEAN : MidSession(k, groundDue)

NextInterval ==
    \/ /\ frameCount % SPEED_INCREASE_INTERVAL < IntervalTicks
       /\ AnimationFrame(SPEED_INCREASE_INTERVAL * (MaxSpeedFactor + 1), FALSE)
    \/ Resize

SpecInterval == InitInterval /\ [][NextInterval]_vars

\* A session on the 800-pixel canvas, on a desktop, with every draw: the
\* player starts with Space and then presses Space only while a ground
\* obstacle is 50 to 80 pixels ahead of the vehicle.
ObstacleAhead ==
    \E i \in DOMAIN obstacles : obstacles[i].x - MOTO_X \in (50 * PX) .. (80 * PX)

NextWide ==
    \/ (gameState = WAITING \/ ObstacleAhead) /\ KeyDown("Space")
    \/ AnimationFrame(MaxFrameWide, FALSE)

SpecWide == InitIdle /\ [][NextWide]_vars

\* The same player on a canvas of GateCanvasWidthPx pixels, wide enough that
\* no vehicle has left the road when the first flying spawn falls due.
InitGate == InitWith(GateCanvasWidthPx * PX, { FALSE }, { NoItem })

NextGate ==
    \/ (gameState = WAITING \/ ObstacleAhead) /\ KeyDown("Space")
    \/ AnimationFrame(MaxFrameGate, FALSE)

SpecGate == InitGate /\ [][NextGate]_vars


\* A long session with every event source: the keyboard and the mouse on a
\* desktop, the touch screen and the orientation on a mobile, resize events,
\* with the dense draws, followed for
\* MaxFrameRide frames, long enough for the score to pass
\* RIDEABLE_VEHICLE_MIN_SCORE and the vehicle to land on a bus.
InitRide == InitWith(CanvasWidthPx * PX, BOOLEAN, { NoItem })

NextRide ==
    \/ \E code \in KeyCodes : KeyDown(code)
    \/ \E code \in KeyCodes : KeyUp(code)
    \/ \E bottom \in BOOLEAN : TouchStart(bottom)
    \/ TouchEnd
    \/ RestartClick
    \/ \E l \in BOOLEAN : OrientationChange(l)
    \/ Resize
    \/ AnimationFrame(MaxFrameRide, TRUE)

SpecRide == InitRide /\ [][NextRide]_vars


\* A desktop session played with the Space key alone, with every draw, so
\* that every type of vehicle comes up, followed for MaxFrameRide frames.
NextMount ==
    \/ KeyDown("Space")
    \/ AnimationFrame(MaxFrameRide, FALSE)

SpecMount == InitRun /\ [][NextMount]_vars


\* a queued requestAnimationFrame callback runs gameLoop, in any session,
\* up to frame maxFrame
AnimationFrameIn(maxFrame) ==
    /\ pending > 0
    /\ gameState = PLAYING => frameCount < maxFrame
    /\ LET s0 == [St EXCEPT !.pending = @ - 1]
       IN \E d \in TickDraws(s0) : Commit(gameLoop(s0, d))

\* Desktop sessions with the Space key and the restart button, each followed
\* for MaxFrameTwice frames, past the first vehicle: a restart while a
\* callback is queued leaves two callbacks per frame until the session ends.
NextTwice ==
    \/ KeyDown("Space")
    \/ RestartClick
    \/ AnimationFrameIn(MaxFrameTwice)

SpecTwice == InitRun /\ [][NextTwice]_vars


\* A long desktop session played with the Space key alone, with the dense
\* draws, followed for MaxFrameLong frames, past three speed increases.
NextLong ==
    \/ KeyDown("Space")
    \/ AnimationFrame(MaxFrameLong, TRUE)

SpecLong == InitRun /\ [][NextLong]_vars


\* A session that has lasted SPEED_INCREASE_INTERVAL x FastFactor frames, so
\* that a vehicle advances more than its own length past the vehicle's x in
\* one tick, played with the Space key for FastTicks frames, with every draw.
InitFast == MidSession(FastFactor, TRUE)

NextFast ==
    \/ KeyDown("Space")
    \/ AnimationFrameIn(SPEED_INCREASE_INTERVAL * FastFactor + FastTicks)

SpecFast == InitFast /\ [][NextFast]_vars


\* ====================================================================
\* Properties
\* ====================================================================

\* the session fields that update() works on
TickFields ==
    << frameCount, score, gameSpeed, motorcycle, obstacles, flyingObstacles,
       nextGroundObstacleFrame, nextFlyingObstacleFrame, particles >>

\* C1: a gameLoop callback that finds gameState other than Playing (Waiting
\* after a forced pause, GameOver) runs update() as a no-op: frameCount, score,
\* gameSpeed, the vehicle, both obstacle collections, the spawn timers and the
\* particles are unchanged by that step.
C1_UpdateNoOpUnlessPlaying ==
    [][ (gameState # PLAYING /\ AnimationFrame(MaxFrame, FALSE)) => UNCHANGED TickFields ]_vars

\* a paused session whose queued callback has run: update() was called in Waiting
C1_Witness ==
    /\ gameState = WAITING
    /\ sessions > 0
    /\ frameCount > 1
    /\ pending = 0

\* C2: startGame() invoked by the restart click while gameState is Playing
\* changes nothing (no field reset, no additional loop).
C2_StartWhilePlayingNoOp ==
    [][ (gameState = PLAYING /\ RestartClick) => UNCHANGED vars ]_vars

\* C3: there is never more than one queued requestAnimationFrame(gameLoop)
\* callback.
C3_SingleLoop == pending <= 1

\* the one snapshot every reset leaves
FreshSession ==
    [gameState |-> PLAYING, score |-> 0, frameCount |-> 0,
     gameSpeed |-> INITIAL_SPEED, obstacles |-> << >>,
     flyingObstacles |-> << >>, particles |-> << >>,
     collisionFlash |-> 0, landingAnimation |-> 0,
     motorcycle |-> [y |-> MotoGroundY, height |-> MOTO_NORMAL_HEIGHT,
                     velocityY |-> 0, isJumping |-> FALSE, isDucking |-> FALSE,
                     isRidingVehicle |-> FALSE, ridingVehicle |-> NullVehicle],
     sunX |-> canvasWidth - SUN_START_X, isNightMode |-> FALSE,
     skyTransition |-> 0, stars |-> 0,
     nextGroundObstacleFrame |-> OBSTACLE_MAX_INTERVAL,
     nextFlyingObstacleFrame |-> FLYING_OBSTACLE_MAX_INTERVAL + HF * FLYING_OBSTACLE_MIN_SCORE,
     groundObstacleInterval |-> OBSTACLE_MAX_INTERVAL,
     flyingObstacleInterval |-> FLYING_OBSTACLE_MAX_INTERVAL]

\* C4: reset completeness: the session state that a startGame() passing the
\* orientation check leaves before its first tick is the same fixed snapshot,
\* whatever the state before.
C4_ResetComplete == resetSnap # NoSnapshot => resetSnap = FreshSession

\* a session started after a game over that beat the stored high score
C4_Witness ==
    /\ sessions >= 2
    /\ gameState = PLAYING
    /\ highScore > 25
    /\ resetSnap = FreshSession

\* C5: gameState starts as Waiting and changes only along Waiting->Playing,
\* Playing->GameOver, GameOver->Playing and Playing->Waiting; every step that
\* enters Playing is a startGame reset: it starts a new session whose first
\* tick has run from frame 0, score 0 and empty obstacle collections.
C5_Transitions ==
    /\ gameState = WAITING
    /\ [][ gameState' # gameState =>
             /\ << gameState, gameState' >> \in
                   { << WAITING, PLAYING >>, << PLAYING, GAME_OVER >>,
                     << GAME_OVER, PLAYING >>, << PLAYING, WAITING >> }
             /\ gameState' = PLAYING =>
                   /\ sessions' = sessions + 1
                   /\ frameCount' = 1
                   /\ score' = 0
                   /\ obstacles' = << >>
                   /\ flyingObstacles' = << >> ]_vars

\* a second session that was paused, after a game over in the first
C5_Witness ==
    /\ gameState = WAITING
    /\ sessions >= 2
    /\ highScore > 25

\* C6: a gameLoop callback that leaves gameState other than Playing requests
\* no further frame, and while gameState stays other than Playing no step
\* changes frameCount, score or an obstacle.
C6_LoopStops ==
    [][ /\ (AnimationFrame(MaxFrame, FALSE) /\ gameState' # PLAYING) => pending' = pending - 1
        /\ (gameState # PLAYING /\ gameState' # PLAYING) =>
              UNCHANGED << frameCount, score, obstacles, flyingObstacles >> ]_vars

\* the loop has stopped after a collision
C6_Witness ==
    /\ gameState = GAME_OVER
    /\ pending = 0
    /\ collisionFlash = COLLISION_FLASH_DURATION - 1


\* the frame at which the first ground obstacle (spawned at frame
\* OBSTACLE_MAX_INTERVAL at x = canvas.width, INITIAL_SPEED per tick) has its
\* left edge past the right edge of the hitbox of a vehicle that stays put
IdleCrashFrame ==
    LET hitboxRight == MOTO_X + normalHitbox.offsetX + normalHitbox.width
    IN (OBSTACLE_MAX_INTERVAL \div HF)
         + ((ScenarioCanvasWidthPx * PX - hitboxRight) \div INITIAL_SPEED) + 1

\* C7 as stated: from a fresh session, IdleTicks ticks without input leave
\* gameSpeed at its initial value, never reach GameOver, and give
\* score = floor(IdleTicks / 5) at the last tick.
C7_IdleSurvives ==
    /\ gameSpeed = INITIAL_SPEED
    /\ gameState # GAME_OVER
    /\ frameCount = IdleTicks => score = IdleTicks \div SURVIVAL_FRAMES

\* C7, amended: without input gameSpeed stays at its initial value and
\* score = floor(frameCount / 5) at every tick, but the session does not last
\* IdleTicks ticks: the ground obstacle spawned at frame 120 hits the vehicle
\* at frame IdleCrashFrame (238 on the 800-pixel canvas), where the game is
\* over with score floor(238 / 5) = 47.
C7_IdleCrashes ==
    /\ gameSpeed = INITIAL_SPEED
    /\ score = frameCount \div SURVIVAL_FRAMES
    /\ gameState = PLAYING => frameCount < IdleCrashFrame
    /\ gameState = GAME_OVER => frameCount = IdleCrashFrame /\ IdleCrashFrame < IdleTicks

C7_Witness ==
    /\ gameState = GAME_OVER
    /\ frameCount = 238
    /\ score = 47
    /\ pending = 0

\* ids of the elements of a collection, elements of a sequence
Ids(collection) == { collection[i].id : i \in DOMAIN collection }
Range(seq) == { seq[i] : i \in DOMAIN seq }

RECURSIVE SumPoints(_, _)
\* the points of the obstacles of collection whose id is in gone
SumPoints(collection, gone) ==
    IF collection = << >> THEN 0
    ELSE (IF Head(collection).id \in gone
          THEN (IF "rideable" \in DOMAIN Head(collection)
                THEN (IF Head(collection).rideable THEN RIDEABLE_VEHICLE_POINTS
                                                   ELSE VEHICLE_POINTS)
                ELSE FLYING_OBSTACLE_POINTS)
          ELSE 0) + SumPoints(Tail(collection), gone)

\* C8: no phantom score: a step that starts a session leaves score = 0; any
\* other step adds to score exactly the survival credit (1 if the step is a
\* tick that brings frameCount to a multiple of 5) plus the points of the
\* obstacles the step removed from the collections; so score never decreases
\* within a session.
C8_NoPhantomScore ==
    [][ IF sessions' # sessions
        THEN score' = 0
        ELSE /\ score' = score
                  + (IF frameCount' # frameCount /\ frameCount' % SURVIVAL_FRAMES = 0
                     THEN 1 ELSE 0)
                  + SumPoints(obstacles, Ids(obstacles) \ Ids(obstacles'))
                  + SumPoints(flyingObstacles, Ids(flyingObstacles) \ Ids(flyingObstacles'))
             /\ score' >= score ]_vars

\* a ground and a flying obstacle have been credited on top of the survival credit
C8_Witness ==
    /\ \E i \in DOMAIN credited : credited[i] % 2 = 1
    /\ \E i \in DOMAIN credited : credited[i] % 2 = 0
    /\ score = frameCount \div SURVIVAL_FRAMES
                 + VEHICLE_POINTS * (Len(credited) - 1) + FLYING_OBSTACLE_POINTS

\* the step of a collection of obstacles in one tick, at the given speed
Lifecycle(before, after, speed, creditedAfter) ==
    /\ \A i \in DOMAIN before :
         LET o  == before[i]
             nx == o.x - speed
         IN IF nx + o.width < 0
            THEN o.id \notin Ids(after) /\ o.id \in Range(creditedAfter)
            ELSE \E j \in DOMAIN after : after[j].id = o.id /\ after[j].x = nx
    /\ \A j \in DOMAIN after :
         after[j].id \notin Ids(before) => after[j].x = canvasWidth

\* C9: obstacle lifecycle: an obstacle enters its collection at
\* x = canvas.width; every tick of its session moves it left by its class
\* speed (gameSpeed for ground, gameSpeed x 1.2 for flying); the tick that
\* brings x + width below 0 removes it and credits it; an obstacle is credited
\* once, and one that is still in a collection has not been credited.
C9_ObstacleLifecycle ==
    /\ [](/\ \A i, j \in DOMAIN credited : i # j => credited[i] # credited[j]
          /\ \A id \in Ids(obstacles) \cup Ids(flyingObstacles) : id \notin Range(credited)
          /\ \A i \in DOMAIN obstacles :
               obstacles[i].x <= canvasWidth /\ obstacles[i].x + obstacles[i].width >= 0
          /\ \A i \in DOMAIN flyingObstacles :
               /\ flyingObstacles[i].x <= canvasWidth
               /\ flyingObstacles[i].x + flyingObstacles[i].width >= 0)
    /\ [][ (sessions' = sessions /\ frameCount' # frameCount) =>
             /\ Lifecycle(obstacles, obstacles', gameSpeed', credited')
             /\ Lifecycle(flyingObstacles, flyingObstacles',
                          (gameSpeed' * FLYING_SPEED_NUM) \div FLYING_SPEED_DEN, credited')
             /\ Len(credited') = Len(credited)
                  + Cardinality(Ids(obstacles) \ Ids(obstacles'))
                  + Cardinality(Ids(flyingObstacles) \ Ids(flyingObstacles')) ]_vars

\* a ground and a flying obstacle have been removed and credited, and the next
\* ground obstacle has entered at the right edge
C9_Witness ==
    /\ \E i \in DOMAIN credited : credited[i] % 2 = 1
    /\ \E i \in DOMAIN credited : credited[i] % 2 = 0
    /\ \E i \in DOMAIN obstacles : obstacles[i].x = canvasWidth

\* C10: a step into GameOver sets highScore to max(highScore, score) and
\* writes the stored item exactly when score exceeds the previous highScore;
\* no other step changes highScore or the stored item; in GameOver
\* highScore >= score, and the stored item reads back as highScore.
C10_HighScore ==
    /\ [](/\ ParseHighScore(stored) = highScore
          /\ gameState = GAME_OVER => highScore >= score)
    /\ [][ IF gameState # GAME_OVER /\ gameState' = GAME_OVER
           THEN /\ highScore' = Max(highScore, score')
                /\ highScore' >= highScore
                /\ (stored' # stored) <=> (score' > highScore)
                /\ stored' # stored => stored' = NumToStr(score')
           ELSE highScore' = highScore /\ stored' = stored ]_vars

\* a game over that beat the stored high score of 25, and was written
C10_Witness ==
    /\ gameState = GAME_OVER
    /\ score > 25
    /\ highScore = score
    /\ stored = NumToStr(score)

\* a game over below the stored high score, which is kept
C10_WitnessKept ==
    /\ gameState = GAME_OVER
    /\ score < highScore
    /\ stored = << "2", "5" >>


\* a decimal integer, written out: an optional "-" and one or more digits
IsIntegerString(str) ==
    LET start == IF str # << >> /\ str[1] = "-" THEN 2 ELSE 1
    IN /\ start <= Len(str)
       /\ \A i \in start..Len(str) : IsDigit(str[i])

\* no game of the page's one session has ended: highScore and the stored item
\* are as the page load left them
BeforeGameOver == sessions <= 1 /\ gameState # GAME_OVER

\* C11 as stated: at startup an absent item, and every stored item that is not
\* an integer written out, gives highScore = 0.
C11_MalformedGivesZero ==
    BeforeGameOver =>
        ((stored = NoItem \/ ~IsIntegerString(stored)) => highScore = 0)

\* the absolute value
Abs(n) == IF n < 0 THEN -n ELSE n

\* C11, amended: at startup highScore is a number in every case: 0 when the
\* item is absent or starts (after white space and a sign) with no digit;
\* and when the item starts with an integer written out (no leading zero, not
\* followed by a further digit or a radix mark) highScore is that integer,
\* whatever follows it: "2.5" gives 2.
C11_LeadingInteger ==
    BeforeGameOver =>
        /\ highScore \in Int
        /\ stored = NoItem => highScore = 0
        /\ stored # NoItem =>
              LET start == SkipSpace(stored, 1)
                  digit == IF start <= Len(stored) /\ stored[start] \in { "-", "+" }
                           THEN start + 1 ELSE start
              IN (digit > Len(stored) \/ ~IsDigit(stored[digit])) => highScore = 0
        /\ \A k \in 1 .. Len(stored) :
              LET neg    == stored[1] = "-"
                  digits == SubSeq(stored, IF neg THEN 2 ELSE 1, k)
              IN (/\ k = Len(stored) \/ ~(IsDigit(stored[k + 1]) \/ stored[k + 1] \in { "x", "X" })
                  /\ IsIntegerString(SubSeq(stored, 1, k))
                  /\ Len(digits) > 1 => digits[1] # "0")
                 => /\ digits = NumToStr(Abs(highScore))
                    /\ highScore < 0 => neg
                    /\ highScore > 0 => ~neg

\* the page was loaded with "2.5" stored, and highScore is 2 well into the
\* first session
C11_Witness ==
    /\ gameState = PLAYING
    /\ frameCount > 100
    /\ stored = << "2", ".", "5" >>
    /\ highScore = 2


\* the window of a parameter set is in order: adjMin >= cap, adjMax >= adjMin + spacing
WindowInOrder(frame, minInterval, maxInterval, minCap, minSpacing) ==
    LET w == SpawnWindow(frame, minInterval, maxInterval, minCap, minSpacing)
    IN /\ w.lo >= minCap
       /\ w.hi >= w.lo + minSpacing
       /\ \A i \in calculateSpawnInterval(frame, minInterval, maxInterval, minCap, minSpacing) :
             w.lo <= i /\ i < w.hi

\* C12: interval monotonicity: at every frame count, for the ground set
\* (60/120, cap 40, spacing 30) and the flying set (100/200, cap 60, spacing
\* 50), adjMin >= cap and adjMax >= adjMin + spacing, every interval that can
\* be drawn lies in [adjMin, adjMax), and the interval a spawn has just stored
\* lies in [cap, max interval).
C12_IntervalMonotone ==
    /\ WindowInOrder(frameCount, OBSTACLE_MIN_INTERVAL, OBSTACLE_MAX_INTERVAL,
                     OBSTACLE_MIN_INTERVAL_CAP, GROUND_INTERVAL_MIN_SPACING)
    /\ WindowInOrder(frameCount, FLYING_OBSTACLE_MIN_INTERVAL, FLYING_OBSTACLE_MAX_INTERVAL,
                     FLYING_INTERVAL_MIN_CAP, FLYING_INTERVAL_MIN_SPACING)
    /\ (\E i \in DOMAIN obstacles : obstacles[i].id = 2 * frameCount) =>
          /\ groundObstacleInterval >= OBSTACLE_MIN_INTERVAL_CAP
          /\ groundObstacleInterval < OBSTACLE_MAX_INTERVAL
          /\ nextGroundObstacleFrame >= HF * frameCount + OBSTACLE_MIN_INTERVAL_CAP
    /\ (\E i \in DOMAIN flyingObstacles : flyingObstacles[i].id = 2 * frameCount + 1) =>
          /\ flyingObstacleInterval >= FLYING_INTERVAL_MIN_CAP
          /\ flyingObstacleInterval < FLYING_OBSTACLE_MAX_INTERVAL
          /\ nextFlyingObstacleFrame >= HF * frameCount + FLYING_INTERVAL_MIN_CAP

\* a flying obstacle was spawned where both of its bounds are at their floors
\* (speed factor 190: 100 - 95 < 60 and 200 - 95 < 60 + 50)
C12_Witness ==
    /\ frameCount = SPEED_INCREASE_INTERVAL * 190 + 1
    /\ \E i \in DOMAIN flyingObstacles : flyingObstacles[i].id = 2 * frameCount + 1
    /\ flyingObstacleInterval = FLYING_INTERVAL_MIN_CAP + FLYING_INTERVAL_MIN_SPACING - 1


\* the elements of a collection that were not created at the given id
Older(collection, id) == SelectSeq(collection, LAMBDA o : o.id # id)

\* the ids of the elements a step has added to a collection
Created(before, after) == Ids(after) \ Ids(before)

\* C13: spawn suppression and retry.  In a tick, a class whose spawn is due
\* (frameCount >= its next spawn frame; for the flying class also score above
\* its gate) and for which the most recently spawned obstacle of the other
\* class is closer than the safe distance to the right edge creates nothing
\* and is rescheduled at frameCount + OBSTACLE_RETRY_DELAY; due and not
\* suppressed, it creates exactly one obstacle, at the right edge, and is
\* rescheduled at frameCount + an interval drawn from its window; not due, it
\* creates nothing and keeps its schedule.
C13_SuppressionAndRetry ==
    [][ (sessions' = sessions /\ frameCount' = frameCount + 1) =>
          LET now       == HF * frameCount'
              flyingOld == Older(flyingObstacles', 2 * frameCount' + 1)
              groundDue == now >= nextGroundObstacleFrame
              flyingDue == score' > FLYING_OBSTACLE_MIN_SCORE /\ now >= nextFlyingObstacleFrame
              groundSuppressed == isObstacleTooClose(flyingOld, canvasWidth)
              flyingSuppressed == isObstacleTooClose(obstacles', canvasWidth)
          IN /\ IF groundDue /\ groundSuppressed
                THEN /\ Created(obstacles, obstacles') = { }
                     /\ nextGroundObstacleFrame' = now + OBSTACLE_RETRY_DELAY
                ELSE IF groundDue
                THEN /\ Created(obstacles, obstacles') = { 2 * frameCount' }
                     /\ obstacles'[Len(obstacles')].id = 2 * frameCount'
                     /\ obstacles'[Len(obstacles')].x = canvasWidth
                     /\ nextGroundObstacleFrame' = now + groundObstacleInterval'
                     /\ groundObstacleInterval' \in calculateSpawnInterval(frameCount',
                            OBSTACLE_MIN_INTERVAL, OBSTACLE_MAX_INTERVAL,
                            OBSTACLE_MIN_INTERVAL_CAP, GROUND_INTERVAL_MIN_SPACING)
                ELSE /\ Created(obstacles, obstacles') = { }
                     /\ nextGroundObstacleFrame' = nextGroundObstacleFrame
             /\ IF flyingDue /\ flyingSuppressed
                THEN /\ Created(flyingObstacles, flyingObstacles') = { }
                     /\ nextFlyingObstacleFrame' = now + OBSTACLE_RETRY_DELAY
                ELSE IF flyingDue
                THEN /\ Created(flyingObstacles, flyingObstacles') = { 2 * frameCount' + 1 }
                     /\ flyingObstacles'[Len(flyingObstacles')].id = 2 * frameCount' + 1
                     /\ flyingObstacles'[Len(flyingObstacles')].x = canvasWidth
                     /\ nextFlyingObstacleFrame' = now + flyingObstacleInterval'
                     /\ flyingObstacleInterval' \in calculateSpawnInterval(frameCount',
                            FLYING_OBSTACLE_MIN_INTERVAL, FLYING_OBSTACLE_MAX_INTERVAL,
                            FLYING_INTERVAL_MIN_CAP, FLYING_INTERVAL_MIN_SPACING)
                ELSE /\ Created(flyingObstacles, flyingObstacles') = { }
                     /\ nextFlyingObstacleFrame' = nextFlyingObstacleFrame ]_vars

\* a ground spawn was suppressed by a flying obstacle near the right edge and
\* rescheduled, while an earlier ground obstacle is still on the road
C13_Witness ==
    /\ flyingObstacles # << >>
    /\ obstacles # << >>
    /\ canvasWidth - flyingObstacles[Len(flyingObstacles)].x < SAFE_DISTANCE_BIRD_VEHICLE
    /\ nextGroundObstacleFrame = HF * frameCount + OBSTACLE_RETRY_DELAY
    /\ \A i \in DOMAIN obstacles : obstacles[i].id # 2 * frameCount


\* C14: aerial gating: while score is at or below FLYING_OBSTACLE_MIN_SCORE
\* the flying collection is empty, and a step that creates a flying obstacle
\* leaves score above the threshold.
C14_AerialGate ==
    /\ [](score <= FLYING_OBSTACLE_MIN_SCORE => flyingObstacles = << >>)
    /\ [][ Created(flyingObstacles, flyingObstacles') # { } =>
             score' > FLYING_OBSTACLE_MIN_SCORE ]_vars

\* the first flying spawn is overdue and held back by the score alone: no
\* ground obstacle is near the right edge
C14_Witness ==
    /\ gameState = PLAYING
    /\ score <= FLYING_OBSTACLE_MIN_SCORE
    /\ HF * frameCount >= nextFlyingObstacleFrame
    /\ ~isObstacleTooClose(obstacles, canvasWidth)
    /\ flyingObstacles = << >>

\* the gate has opened: a flying obstacle was spawned
C14_WitnessSpawned ==
    /\ flyingObstacles # << >>
    /\ score > FLYING_OBSTACLE_MIN_SCORE


\* C15: rideable vehicles are locked behind the score threshold: a step that
\* creates a rideable ground obstacle leaves score at or above
\* RIDEABLE_VEHICLE_MIN_SCORE, and while score is below it no obstacle of the
\* ground collection is rideable.
C15_RideableGate ==
    /\ [](score < RIDEABLE_VEHICLE_MIN_SCORE =>
             \A i \in DOMAIN obstacles : ~obstacles[i].rideable)
    /\ [][ (\E i \in DOMAIN obstacles' :
               obstacles'[i].rideable /\ obstacles'[i].id \in Created(obstacles, obstacles'))
           => score' >= RIDEABLE_VEHICLE_MIN_SCORE ]_vars

\* a rideable vehicle has been spawned, after vehicles spawned below the
\* threshold were passed
C15_Witness ==
    /\ \E i \in DOMAIN obstacles : obstacles[i].rideable
    /\ score >= RIDEABLE_VEHICLE_MIN_SCORE
    /\ credited # << >>

\* -------------------------------------------------------------------- C16
\* a step of an input handler that runs no tick and starts no session
InputStep == frameCount' = frameCount /\ sessions' = sessions

\* C16: an input handler changes the vehicle only by a jump, and the jump
\* is taken only in the Playing state from a vehicle that is neither jumping
\* nor ducking: velocityY becomes jumpPower, isJumping true, and the riding
\* flag and the mount reference are cleared in the same step; a handler that
\* starts a session leaves velocityY at jumpPower only in the Playing state
\* with the vehicle not ducking, and no tick sets velocityY to jumpPower.
C16_JumpGuard ==
    [][ /\ (InputStep /\ motorcycle' # motorcycle) =>
              /\ gameState = PLAYING
              /\ gameState' = PLAYING
              /\ ~motorcycle.isJumping
              /\ ~motorcycle.isDucking
              /\ motorcycle' = [motorcycle EXCEPT
                                   !.velocityY = MOTO_JUMP_POWER,
                                   !.isJumping = TRUE,
                                   !.isRidingVehicle = FALSE,
                                   !.ridingVehicle = NullVehicle]
        /\ (sessions' # sessions /\ motorcycle'.velocityY = MOTO_JUMP_POWER) =>
              /\ gameState' = PLAYING
              /\ motorcycle'.isJumping
              /\ ~motorcycle'.isDucking
              /\ ~motorcycle'.isRidingVehicle
        /\ (frameCount' # frameCount /\ sessions' = sessions) =>
              motorcycle'.velocityY # MOTO_JUMP_POWER
      ]_vars

\* a jump just taken from the roof of a vehicle: the riding flag and the
\* mount reference are cleared and the vehicle is still at riding height
C16_Witness ==
    /\ gameState = PLAYING
    /\ motorcycle.isJumping
    /\ motorcycle.velocityY = MOTO_JUMP_POWER
    /\ motorcycle.y < MotoGroundY
    /\ ~motorcycle.isRidingVehicle
    /\ motorcycle.ridingVehicle = NullVehicle
    /\ \E i \in DOMAIN obstacles :
          /\ obstacles[i].rideable
          /\ motorcycle.y = obstacles[i].y - motorcycle.height - RIDE_HEIGHT

\* -------------------------------------------------------------------- C17
\* C17: in every reachable state isDucking and isJumping are not both true,
\* and while isRidingVehicle is true the vehicle is neither ducking nor
\* jumping, whether or not the duck input is held.
C17_PoseFlags ==
    /\ ~(motorcycle.isDucking /\ motorcycle.isJumping)
    /\ motorcycle.isRidingVehicle =>
          ~motorcycle.isDucking /\ ~motorcycle.isJumping

\* the vehicle rides a bus, locked to its roof, with the duck input held
C17_Witness ==
    /\ gameState = PLAYING
    /\ motorcycle.isRidingVehicle
    /\ motorcycle.ridingVehicle # NullVehicle
    /\ motorcycle.y = motorcycle.ridingVehicle.y - motorcycle.height - RIDE_HEIGHT
    /\ keys["ArrowDown"]
    /\ ~motorcycle.isDucking

\* the vehicle ducks on the ground with the duck input held
C17_WitnessDuck ==
    /\ gameState = PLAYING
    /\ motorcycle.isDucking
    /\ keys["ArrowDown"]
    /\ ~motorcycle.isJumping

\* -------------------------------------------------------------------- C18
\* a step of one tick of a running session
TickStep == frameCount' = frameCount + 1 /\ sessions' = sessions

\* C18: in a tick that begins with the vehicle jumping, with v the velocity
\* after gravity, the jump ends on the ground exactly when y + v reaches or
\* crosses groundY, and then y = groundY, velocityY = 0 and isJumping is
\* false; otherwise y advances by v and the vehicle is still jumping, or has
\* landed on a vehicle.  In every state y is not below groundY unless the
\* vehicle is ducking, and y = groundY when it is not jumping, not ducking
\* and not riding.
C18_LandingClamp ==
    /\ [](/\ ~motorcycle.isDucking => motorcycle.y <= MotoGroundY
          /\ (~motorcycle.isJumping /\ ~motorcycle.isDucking
                 /\ ~motorcycle.isRidingVehicle) => motorcycle.y = MotoGroundY)
    /\ [][ (TickStep /\ motorcycle.isJumping) =>
              LET v == motorcycle.velocityY + MOTO_GRAVITY
                  y == motorcycle.y + v
              IN IF y >= MotoGroundY
                 THEN /\ motorcycle'.y = MotoGroundY
                      /\ motorcycle'.velocityY = 0
                      /\ ~motorcycle'.isJumping
                      /\ ~motorcycle'.isRidingVehicle
                      /\ landingAnimation' = LANDING_FRAMES - 1
                 ELSE /\ motorcycle'.y = y
                      /\ \/ motorcycle'.isJumping /\ motorcycle'.velocityY = v
                         \/ motorcycle'.isRidingVehicle /\ motorcycle'.velocityY = 0
      ]_vars

\* the tick after a landing from a jump off the ground: the vehicle stands
\* on the ground line and the landing animation has run one frame
C18_Witness ==
    /\ gameState = PLAYING
    /\ motorcycle.y = MotoGroundY
    /\ motorcycle.velocityY = 0
    /\ ~motorcycle.isJumping
    /\ landingAnimation = LANDING_FRAMES - 1

\* -------------------------------------------------------------------- C19
\* the vehicle is falling when checkCollisions runs in the tick taken from
\* the current state: it was jumping with a downward velocity after gravity
\* and has not reached the ground, or it has just fallen off its mount
FallingAtCheck ==
    LET m == motorcycle
        v == m.velocityY + MOTO_GRAVITY
    IN \/ m.isJumping /\ v > 0 /\ m.y + v < MotoGroundY
       \/ /\ m.isRidingVehicle
          /\ m.ridingVehicle # NullVehicle
          /\ m.ridingVehicle.x + m.ridingVehicle.width < MOTO_X

\* the hitbox overlaps obstacle o horizontally with its bottom in the
\* landing window of o
InLandingWindow(hitbox, o) ==
    /\ hitbox.x + hitbox.width > o.x
    /\ hitbox.x < o.x + o.width
    /\ hitbox.y + hitbox.height <= o.y + 10 * PX
    /\ hitbox.y + hitbox.height >= o.y - 5 * PX

\* C19: in a tick where the falling vehicle overlaps a rideable obstacle
\* horizontally with its hitbox bottom within [top - 5, top + 10], the
\* vehicle mounts that obstacle (riding flag and mount reference set,
\* jumping and velocity cleared), and the session ends in that tick only
\* by a flying obstacle.
C19_MountPriority ==
    [][ (TickStep /\ gameState = PLAYING /\ FallingAtCheck) =>
          LET hitbox == getMotorcycleHitbox(motorcycle')
          IN \A i \in DOMAIN obstacles' :
               (obstacles'[i].rideable /\ InLandingWindow(hitbox, obstacles'[i])) =>
                   /\ motorcycle'.isRidingVehicle
                   /\ motorcycle'.ridingVehicle = obstacles'[i]
                   /\ ~motorcycle'.isJumping
                   /\ motorcycle'.velocityY = 0
                   /\ gameState' = GAME_OVER =>
                         \E j \in DOMAIN flyingObstacles' :
                             checkAABBCollision(hitbox, flyingObstacles'[j])
      ]_vars

\* the vehicle has just mounted a bus whose bounding box its hitbox
\* overlaps, and the session goes on
C19_Witness ==
    /\ gameState = PLAYING
    /\ motorcycle.isRidingVehicle
    /\ motorcycle.ridingVehicle # NullVehicle
    /\ ~motorcycle.isJumping
    /\ motorcycle.velocityY = 0
    /\ motorcycle.y # motorcycle.ridingVehicle.y - motorcycle.height - RIDE_HEIGHT
    /\ checkAABBCollision(getMotorcycleHitbox(motorcycle), motorcycle.ridingVehicle)

\* -------------------------------------------------------------------- C20
\* the hitbox meets a ground obstacle while the vehicle rides none, or meets
\* a flying obstacle, at the end of the tick
HitAfterTick ==
    LET hitbox == getMotorcycleHitbox(motorcycle')
    IN \/ /\ ~motorcycle'.isRidingVehicle
          /\ \E i \in DOMAIN obstacles' :
                checkAABBCollision(hitbox, obstacles'[i])
       \/ \E j \in DOMAIN flyingObstacles' :
             checkAABBCollision(hitbox, flyingObstacles'[j])

C21_PhaseOrder ==
    [][ (TickStep /\ gameState = PLAYING) =>
          /\ gameSpeed' = gameSpeed
                + (IF frameCount' % SPEED_INCREASE_INTERVAL = 0
                   THEN SPEED_INCREMENT ELSE 0)
          /\ Lifecycle(obstacles, obstacles', gameSpeed', credited')
          /\ Lifecycle(flyingObstacles, flyingObstacles',
                       (gameSpeed' * FLYING_SPEED_NUM) \div FLYING_SPEED_DEN, credited')
          /\ \A id \in Created(obstacles, obstacles') \cup
                        Created(flyingObstacles, flyingObstacles') :
                id \div 2 = frameCount'
          /\ (/\ motorcycle.isRidingVehicle
              /\ motorcycle.ridingVehicle # NullVehicle
              /\ motorcycle.ridingVehicle.x + motorcycle.ridingVehicle.width >= MOTO_X) =>
                /\ motorcycle'.isRidingVehicle
                /\ motorcycle'.ridingVehicle.id = motorcycle.ridingVehicle.id
                /\ motorcycle'.ridingVehicle.x = motorcycle.ridingVehicle.x - gameSpeed'
          /\ (/\ frameCount' % PARTICLE_SPAWN_INTERVAL = 0
              /\ ~motorcycle'.isJumping
              /\ motorcycle'.isRidingVehicle => motorcycle.isRidingVehicle) =>
                /\ particles' # << >>
                /\ particles'[Len(particles')] = PARTICLE_LIFE - 1
          /\ gameState' = GAME_OVER <=> HitAfterTick
      ]_vars

\* the vehicle still rides a bus that this tick's advance has carried past
\* the vehicle's x
C21_Witness ==
    /\ gameState = PLAYING
    /\ motorcycle.isRidingVehicle
    /\ motorcycle.ridingVehicle # NullVehicle
    /\ motorcycle.ridingVehicle.x + motorcycle.ridingVehicle.width < MOTO_X
    /\ \E i \in DOMAIN obstacles : obstacles[i] = motorcycle.ridingVehicle

\* -------------------------------------------------------------------- C22
\* the part of the state the game logic reads: the state of the game, the
\* session counter, the vehicle and the duck input
Driven(s) == << s.gameState, s.sessions, s.motorcycle, s.keys["ArrowDown"] >>

\* C22 as stated: in every state, a touch on the upper half has the effect
\* of a Space or ArrowUp key press, the start of a touch on the lower half
\* has the effect of an ArrowDown key press, and the end of that touch the
\* effect of the release of ArrowDown.
C22_InputParity ==
    \A d \in (IF gameState = WAITING THEN StartDraws(St) ELSE { NoDraw }) :
        /\ \A code \in { "Space", "ArrowUp" } :
              Driven(touchstart(St, FALSE, d)) = Driven(keydown(St, code, d))
        /\ Driven(touchstart(St, TRUE, d)) = Driven(keydown(St, "ArrowDown", d))
        /\ Driven(touchend(touchstart(St, TRUE, d)))
              = Driven(keyup(keydown(St, "ArrowDown", d), "ArrowDown"))

\* -------------------------------------------------------------------- C23
\* the full sprite box of the vehicle's pose at its position
PoseBox(m) ==
    LET dims == getSpriteDimensions(IF m.isDucking THEN "MOTORCYCLE_DUCK"
                                                   ELSE "MOTORCYCLE_NORMAL")
    IN [x |-> MOTO_X, y |-> m.y, width |-> dims.width, height |-> dims.height]

\* rectangle inner lies inside rectangle outer
Inside(inner, outer) ==
    /\ outer.x <= inner.x
    /\ inner.x + inner.width <= outer.x + outer.width
    /\ outer.y <= inner.y
    /\ inner.y + inner.height <= outer.y + outer.height

\* C23: in every reachable state, in the normal and in the duck pose, the
\* hitbox getMotorcycleHitbox returns lies inside the full sprite box of the
\* pose at the vehicle's position, and has 0.7 of its width and height.
C23_HitboxContained ==
    LET hitbox == getMotorcycleHitbox(motorcycle)
        box    == PoseBox(motorcycle)
    IN /\ Inside(hitbox, box)
       /\ 10 * hitbox.width = 7 * box.width
       /\ 10 * hitbox.height = 7 * box.height

\* the vehicle ducks on the ground in a running session
C23_Witness ==
    /\ gameState = PLAYING
    /\ motorcycle.isDucking
    /\ motorcycle.height = MOTO_DUCK_HEIGHT
    /\ motorcycle.y > MotoGroundY
    /\ frameCount > 1

\* -------------------------------------------------------------------- C24
\* the rectangles with corners on a small grid, empty ones included
Rects ==
    [x : 0 .. MaxCoord, y : 0 .. MaxCoord, width : 0 .. MaxSize, height : 0 .. MaxSize]

\* the rectangles of the current state: the vehicle's hitbox and every
\* obstacle of either class
StateRects ==
    { getMotorcycleHitbox(motorcycle) }
      \cup { [x |-> o.x, y |-> o.y, width |-> o.width, height |-> o.height] :
               o \in Range(obstacles) \cup Range(flyingObstacles) }

\* C24: checkAABBCollision(A, B) = checkAABBCollision(B, A), for every two
\* rectangles of the grid and for every two rectangles of the game.
C24_CollisionSymmetric ==
    /\ \A A, B \in Rects :
          checkAABBCollision(A, B) = checkAABBCollision(B, A)
    /\ \A A, B \in StateRects :
          checkAABBCollision(A, B) = checkAABBCollision(B, A)

\* the session has ended with the hitbox and a vehicle overlapping, in
\* either order of the arguments
C24_Witness ==
    /\ gameState = GAME_OVER
    /\ \E i \in DOMAIN obstacles :
          /\ checkAABBCollision(getMotorcycleHitbox(motorcycle), obstacles[i])
          /\ checkAABBCollision(obstacles[i], getMotorcycleHitbox(motorcycle))

\* -------------------------------------------------------------------- C25
\* the extent of the intersection of two rectangles along each axis
OverlapX(A, B) == Min(A.x + A.width, B.x + B.width) - Max(A.x, B.x)
OverlapY(A, B) == Min(A.y + A.height, B.y + B.height) - Max(A.y, B.y)

\* the rectangles of the grid that are not empty
SolidRects == { r \in Rects : r.width > 0 /\ r.height > 0 }

\* on the grid the test is true exactly for a positive extent on both axes
GridOverlap ==
    \A A, B \in SolidRects :
        checkAABBCollision(A, B) <=> (OverlapX(A, B) > 0 /\ OverlapY(A, B) > 0)

\* C25: checkAABBCollision(A, B) is true exactly when the intersection of
\* the rectangles has a positive extent on both axes, on the grid and for
\* the hitbox against every obstacle of the game; and a tick that leaves
\* the vehicle ducking, every flying obstacle with its bottom edge at or
\* above the top edge of the hitbox and no vehicle overlapping the hitbox
\* does not end the session.
C25_OverlapExact ==
    /\ [](/\ GridOverlap
          /\ \A B \in StateRects :
                LET A == getMotorcycleHitbox(motorcycle)
                IN checkAABBCollision(A, B) <=>
                       (OverlapX(A, B) > 0 /\ OverlapY(A, B) > 0))
    /\ [][ (TickStep /\ gameState = PLAYING /\ motorcycle'.isDucking) =>
             LET hitbox == getMotorcycleHitbox(motorcycle')
             IN (/\ \A j \in DOMAIN flyingObstacles' :
                       flyingObstacles'[j].y + flyingObstacles'[j].height <= hitbox.y
                 /\ \A i \in DOMAIN obstacles' :
                       OverlapX(hitbox, obstacles'[i]) <= 0)
                => gameState' = PLAYING
      ]_vars

\* the vehicle ducks under a flying obstacle that is right above it, and
\* the session goes on
C25_Witness ==
    /\ gameState = PLAYING
    /\ motorcycle.isDucking
    /\ \E j \in DOMAIN flyingObstacles :
          LET hitbox == getMotorcycleHitbox(motorcycle)
          IN /\ OverlapX(hitbox, flyingObstacles[j]) > 0
             /\ flyingObstacles[j].y + flyingObstacles[j].height <= hitbox.y

\* -------------------------------------------------------------------- C26
\* the fields of a session, its counter and the high score
SessionFields ==
    << score, frameCount, gameSpeed, obstacles, flyingObstacles, particles,
       motorcycle, landingAnimation, sunX, isNightMode, skyTransition, stars,
       nextGroundObstacleFrame, nextFlyingObstacleFrame,
       groundObstacleInterval, flyingObstacleInterval,
       sessions, resetSnap, highScore, stored >>

\* the touch device is held in portrait
Portrait == isMobile /\ ~landscape

\* C26: a touch device in portrait is never in the Playing state; the
\* step that turns it to portrait while Playing leaves gameState Waiting
\* and the session as it was; and no step taken in portrait, a call of
\* startGame included, changes a session field, enters Playing or queues a
\* callback.
C26_OrientationGate ==
    /\ [](Portrait => gameState # PLAYING)
    /\ [][ /\ (isMobile /\ landscape /\ ~landscape' /\ gameState = PLAYING) =>
                /\ gameState' = WAITING
                /\ UNCHANGED SessionFields
                /\ pending' = pending
           /\ (Portrait /\ ~landscape') =>
                /\ gameState' = gameState
                /\ UNCHANGED SessionFields
                /\ pending' <= pending
      ]_vars

\* a session on a touch device has been paused by a turn to portrait, its
\* callback still queued
C26_Witness ==
    /\ Portrait
    /\ gameState = WAITING
    /\ frameCount > 0
    /\ pending > 0
    /\ sessions = 1

\* -------------------------------------------------------------------- C27
\* C27: in every state gameSpeed = INITIAL_SPEED + SPEED_INCREMENT x
\* floor(frameCount / SPEED_INCREASE_INTERVAL), and within a session
\* gameSpeed changes only in the tick that brings frameCount to a multiple
\* of SPEED_INCREASE_INTERVAL, by SPEED_INCREMENT.
C27_SpeedSchedule ==
    /\ [](gameSpeed = INITIAL_SPEED
              + SPEED_INCREMENT * (frameCount \div SPEED_INCREASE_INTERVAL))
    /\ [][ sessions' = sessions =>
             gameSpeed' = gameSpeed
                + (IF frameCount' # frameCount
                      /\ frameCount' % SPEED_INCREASE_INTERVAL = 0
                   THEN SPEED_INCREMENT ELSE 0) ]_vars

\* the session has passed its third speed increase
C27_Witness ==
    /\ gameState = PLAYING
    /\ frameCount > 3 * SPEED_INCREASE_INTERVAL
    /\ gameSpeed = INITIAL_SPEED + 3 * SPEED_INCREMENT

\* -------------------------------------------------------------------- C28
\* C28 as documented: in a tick, apart from the survival point, score grows
\* by 10 for each ground obstacle that leaves past the left edge and by 15
\* for each flying obstacle that does.
C28_DocumentedPoints ==
    [][ TickStep =>
          score' = score
             + (IF frameCount' % SURVIVAL_FRAMES = 0 THEN 1 ELSE 0)
             + 10 * Cardinality(Ids(obstacles) \ Ids(obstacles'))
             + 15 * Cardinality(Ids(flyingObstacles) \ Ids(flyingObstacles'))
      ]_vars

RidingTick(edge) ==
    (/\ TickStep
     /\ gameState = PLAYING
     /\ motorcycle.isRidingVehicle
     /\ motorcycle.ridingVehicle # NullVehicle) =>
        LET vehicle == motorcycle.ridingVehicle
        IN IF vehicle.x + vehicle.width < edge
           THEN /\ ~motorcycle'.isRidingVehicle
                /\ motorcycle'.ridingVehicle = NullVehicle
                /\ motorcycle'.isJumping
                /\ motorcycle'.velocityY = MOTO_GRAVITY
                /\ motorcycle'.y = motorcycle.y + MOTO_GRAVITY
           ELSE /\ motorcycle'.isRidingVehicle
                /\ motorcycle'.ridingVehicle.id = vehicle.id
                /\ ~motorcycle'.isJumping
                /\ motorcycle'.y = vehicle.y - motorcycle.height - 5 * PX

\* C30 as stated: while riding, a tick dismounts the vehicle once the
\* trailing edge of the mount has passed the vehicle's leading edge
\* (motorcycle.x + motorcycle.width), and otherwise sets it atop the mount.
C30_DismountAtLeadingEdge == [][RidingTick(MOTO_X + MOTO_WIDTH)]_vars

\* C30, amended: while riding, a tick dismounts the vehicle once the
\* trailing edge of the mount (x + width) is left of motorcycle.x, the
\* vehicle's own trailing edge, and otherwise sets it atop the mount.
C30_DismountAtTrailingEdge == [][RidingTick(MOTO_X)]_vars

\* the vehicle has just fallen off a bus that has passed its x
C30_Witness ==
    /\ gameState = PLAYING
    /\ motorcycle.isJumping
    /\ motorcycle.velocityY = MOTO_GRAVITY
    /\ ~motorcycle.isRidingVehicle
    /\ \E i \in DOMAIN obstacles :
          /\ obstacles[i].rideable
          /\ obstacles[i].x + obstacles[i].width < MOTO_X
          /\ motorcycle.y = obstacles[i].y - motorcycle.height - 5 * PX + MOTO_GRAVITY

\* -------------------------------------------------------------------- C31
\* the tick in which the airborne vehicle comes down on the ground
LandsOnGround ==
    /\ TickStep
    /\ motorcycle.isJumping
    /\ ~motorcycle'.isJumping
    /\ ~motorcycle'.isRidingVehicle

\* C31: the frame drawn after a landing on the ground finds the landing
\* counter at 8, so that the landing pose is drawn in 8 frames; in every
\* other tick the counter goes down by one while positive; it is never
\* negative.
C31_LandingPoseFrames ==
    /\ [](landingAnimation >= 0)
    /\ [][TickStep =>
            IF LandsOnGround
            THEN landingAnimation' = LANDING_FRAMES
            ELSE landingAnimation' = Max(landingAnimation - 1, 0)]_vars

\* -------------------------------------------------------------------- C32
\* A step of AnimationFrame, by what it does to the frame counter and the
\* callback queue: a queued callback runs, so that a tick is counted or the
\* queue gets shorter.  It can be taken exactly when AnimationFrame can, and
\* no step of another handler is one.
FrameRuns(maxFrame) ==
    /\ pending > 0
    /\ gameState = PLAYING => frameCount < FrameCap(maxFrame)
    /\ frameCount' \in { frameCount, frameCount + 1 }
    /\ pending' \in { pending - 1, pending }

\* The idle scenario with the browser's scheduling: a queued animation-frame
\* callback is eventually run.
SpecIdleFair == SpecIdle /\ WF_<< frameCount, pending >>(FrameRuns(IdleTicks))

\* C32: a collision flash is played out: once collisionFlash is positive
\* (set to COLLISION_FLASH_DURATION at game over), rendered frames bring it
\* down to 0.
C32_FlashPlaysOut == (collisionFlash > 0) ~> (collisionFlash = 0)

\* -------------------------------------------------------------------- C33
\* C33: no tick creates a ground obstacle and a flying obstacle: a tick
\* whose ground spawn succeeds creates no flying obstacle, and if the flying
\* spawn is due in that tick (score above its gate, frameCount at or past its
\* next spawn frame) it is rescheduled at frameCount + OBSTACLE_RETRY_DELAY.
C33_OneSpawnPerTick ==
    [][ (TickStep /\ Created(obstacles, obstacles') # { }) =>
          LET now       == HF * frameCount'
              flyingDue == /\ score' > FLYING_OBSTACLE_MIN_SCORE
                           /\ now >= nextFlyingObstacleFrame
          IN /\ Created(flyingObstacles, flyingObstacles') = { }
             /\ IF flyingDue
                THEN nextFlyingObstacleFrame' = now + OBSTACLE_RETRY_DELAY
                ELSE nextFlyingObstacleFrame' = nextFlyingObstacleFrame ]_vars

\* a ground obstacle was spawned in the tick just run, and the flying spawn,
\* due in the same tick with its gate open, was put off by the retry delay
C33_Witness ==
    /\ obstacles # << >>
    /\ obstacles[Len(obstacles)].id = 2 * frameCount
    /\ obstacles[Len(obstacles)].x = canvasWidth
    /\ score > FLYING_OBSTACLE_MIN_SCORE
    /\ nextFlyingObstacleFrame = HF * frameCount + OBSTACLE_RETRY_DELAY
    /\ \A i \in DOMAIN flyingObstacles : flyingObstacles[i].id # 2 * frameCount + 1

\* -------------------------------------------------------------------- C34
\* A session on the 800-pixel canvas, on a desktop, with the Space key at
\* any time and the dense draws (the shortest interval after every spawn,
\* which leaves a due spawn of the other class the least room), followed for
\* MaxFrameDense frames.
NextDense ==
    \/ KeyDown("Space")
    \/ AnimationFrame(MaxFrameDense, TRUE)

SpecDense == InitIdle /\ [][NextDense]_vars

\* The browser runs every queued animation-frame callback.
SpecDenseFair == SpecDense /\ WF_<< frameCount, pending >>(FrameRuns(MaxFrameDense))

\* the tick just run found the ground spawn due and put it off: the newest
\* flying obstacle is within the safe distance of the right edge
GroundPutOff ==
    /\ gameState = PLAYING
    /\ nextGroundObstacleFrame = HF * frameCount + OBSTACLE_RETRY_DELAY
    /\ isObstacleTooClose(flyingObstacles, canvasWidth)

\* the tick just run found the flying spawn due, with the score gate open,
\* and put it off
FlyingPutOff ==
    /\ gameState = PLAYING
    /\ score > FLYING_OBSTACLE_MIN_SCORE
    /\ nextFlyingObstacleFrame = HF * frameCount + OBSTACLE_RETRY_DELAY
    /\ isObstacleTooClose(obstacles, canvasWidth)

GroundMade == \E i \in DOMAIN obstacles : obstacles[i].id = 2 * frameCount
FlyingMade == \E i \in DOMAIN flyingObstacles : flyingObstacles[i].id = 2 * frameCount + 1

OnGround == ~motorcycle.isJumping /\ ~motorcycle.isRidingVehicle

\* the vehicle on the ground, standing or ducking
GroundPoses ==
    { [y |-> MotoGroundY, isDucking |-> FALSE],
      [y |-> MotoGroundY + (MOTO_NORMAL_HEIGHT - MOTO_DUCK_HEIGHT), isDucking |-> TRUE] }

C35_WitnessAirborne ==
    /\ gameState = GAME_OVER
    /\ motorcycle.isJumping
    /\ \E j \in DOMAIN flyingObstacles :
          checkAABBCollision(getMotorcycleHitbox(motorcycle), flyingObstacles[j])

\* -------------------------------------------------------------------- C36
\* C36: no session's score is lost to the high score: when the game is
\* over highScore is at least the score, and a start that follows a forced
\* orientation pause (a step from the Waiting state that opens a new session
\* and resets the score) leaves highScore at least the score the paused
\* session had reached.
C36_ScoreKept ==
    /\ [](gameState = GAME_OVER => highScore >= score)
    /\ [][ (gameState = WAITING /\ sessions' = sessions + 1) =>
             highScore' >= score ]_vars

\* -------------------------------------------------------------------- C37
RECURSIVE FallTicks(_, _)
\* the ticks of gravity (game.js 591-605) that bring a vehicle at height y
\* with velocity velocityY down to the ground
FallTicks(y, velocityY) ==
    LET v == velocityY + MOTO_GRAVITY
    IN IF y + v >= MotoGroundY THEN 1 ELSE 1 + FallTicks(y + v, v)

\* C37: every airborne phase ends.  An airborne vehicle is at most
\* MaxAirTicks ticks of free fall from the ground, and a tick of the Playing
\* state taken while airborne either ends the phase (the vehicle lands or
\* mounts), ends the game, or leaves the vehicle one tick nearer the ground.
C37_AirborneEnds ==
    /\ [](motorcycle.isJumping =>
             FallTicks(motorcycle.y, motorcycle.velocityY) <= MaxAirTicks)
    /\ [][ (TickStep /\ gameState = PLAYING /\ motorcycle.isJumping) =>
             \/ ~motorcycle'.isJumping
             \/ gameState' = GAME_OVER
             \/ FallTicks(motorcycle'.y, motorcycle'.velocityY)
                  = FallTicks(motorcycle.y, motorcycle.velocityY) - 1 ]_vars

\* the vehicle has jumped off its mount and is further from the ground than
\* a jump from the ground takes it
C37_Witness ==
    /\ gameState = PLAYING
    /\ motorcycle.isJumping
    /\ FallTicks(motorcycle.y, motorcycle.velocityY)
          > FallTicks(MotoGroundY, MOTO_JUMP_POWER)

\* -------------------------------------------------------------------- C38
\* the vehicle is in a jump taken from the ground: velocityY is the jump
\* power plus k ticks of gravity and y is where k such ticks take a vehicle
\* that left the ground
FromGroundJump(m) ==
    /\ m.isJumping
    /\ \E k \in 0 .. MaxAirTicks :
          /\ m.velocityY = MOTO_JUMP_POWER + k * MOTO_GRAVITY
          /\ m.y = MotoGroundY + k * MOTO_JUMP_POWER
                       + MOTO_GRAVITY * ((k * (k + 1)) \div 2)

Bottom(hitbox) == hitbox.y + hitbox.height

\* C38: a vehicle in a jump from the ground falls less than 15 pixels per
\* tick, the height of the landing band.  In a tick in which it is
\* descending and, after the move, overlaps a rideable obstacle horizontally,
\* with its hitbox bottom above the band (top - 5) before the tick: the
\* bottom is not below the band (top + 10) after it; if it is still above
\* the band the hitbox does not touch the obstacle; and if it is in the band
\* the vehicle is mounted, unless an obstacle earlier in the collection ends
\* the game first.
C38_NoFallThrough ==
    /\ [](FromGroundJump(motorcycle) => motorcycle.velocityY < 15 * PX)
    /\ [][ (/\ TickStep
            /\ gameState = PLAYING
            /\ FromGroundJump(motorcycle)
            /\ FallingAtCheck) =>
             LET before == getMotorcycleHitbox(motorcycle)
                 hitbox == getMotorcycleHitbox(motorcycle')
             IN \A i \in DOMAIN obstacles' :
                  LET o == obstacles'[i]
                  IN (/\ o.rideable
                      /\ OverlapX(hitbox, o) > 0
                      /\ Bottom(before) < o.y - 5 * PX) =>
                       /\ Bottom(hitbox) <= o.y + 10 * PX
                       /\ Bottom(hitbox) < o.y - 5 * PX =>
                             ~checkAABBCollision(hitbox, o)
                       /\ Bottom(hitbox) >= o.y - 5 * PX =>
                             \/ /\ motorcycle'.isRidingVehicle
                                /\ ~motorcycle'.isJumping
                                /\ gameState' = GAME_OVER =>
                                     \E j \in DOMAIN flyingObstacles' :
                                        checkAABBCollision(hitbox, flyingObstacles'[j])
                             \/ /\ gameState' = GAME_OVER
                                /\ \E j \in 1 .. (i - 1) :
                                     checkAABBCollision(hitbox, obstacles'[j])
       ]_vars

\* the vehicle, in a jump from the ground, came down into the landing band
\* of a rideable obstacle in the tick just run and is mounted: y is still on
\* the path of the jump, and the hitbox bottom is below the obstacle's top
C38_Witness ==
    /\ gameState = PLAYING
    /\ motorcycle.isRidingVehicle
    /\ motorcycle.ridingVehicle # NullVehicle
    /\ \E k \in 1 .. MaxAirTicks :
          motorcycle.y = MotoGroundY + k * MOTO_JUMP_POWER
                            + MOTO_GRAVITY * ((k * (k + 1)) \div 2)
    /\ Bottom(getMotorcycleHitbox(motorcycle)) > motorcycle.ridingVehicle.y
    /\ Bottom(getMotorcycleHitbox(motorcycle)) <= motorcycle.ridingVehicle.y + 10 * PX

\* ------------------------------------------------------------ scripts.js
\* A string is the sequence of its UTF-16 code units; text written in
\* hexadecimal is a sequence of characters.
HexChar(n) == IF n < 10 THEN Digits[n + 1] ELSE HexLetters[n - 9]

RECURSIVE d2h(_)
\* d2h (scripts.js 1-3): d.toString(16)
d2h(d) ==
    IF d < 16 THEN << HexChar(d) >>
    ELSE Append(d2h(d \div 16), HexChar(d % 16))

\* h2d (scripts.js 4-6): parseInt(h, 16) skips leading white space, reads an
\* optional sign and an optional 0x, then the leading hexadecimal digits; it
\* is NaN if there is none
h2d(h) ==
    LET first  == SkipSpace(h, 1)
        signed == first <= Len(h) /\ h[first] \in { "-", "+" }
        neg    == signed /\ h[first] = "-"
        start  == IF signed THEN first + 1 ELSE first
        prefix == start + 1 <= Len(h) /\ h[start] = "0" /\ h[start + 1] \in { "x", "X" }
        v      == DigitPrefix(h, IF prefix THEN start + 2 ELSE start, 16, -1)
    IN IF v < 0 THEN [nan |-> TRUE, val |-> 0]
       ELSE [nan |-> FALSE, val |-> IF neg THEN -v ELSE v]

RECURSIVE stringToHexFrom(_, _)
\* the loop of stringToHex from index i on
stringToHexFrom(tmp, i) ==
    IF i > Len(tmp) THEN << >>
    ELSE d2h(tmp[i]) \o << " " >> \o stringToHexFrom(tmp, i + 1)

\* stringToHex (scripts.js 7-18)
stringToHex(tmp) == stringToHexFrom(tmp, 1)

RECURSIVE split(_, _, _)
\* tmp.split(' ') from index i on, cur being the piece read so far
split(tmp, i, cur) ==
    IF i > Len(tmp) THEN << cur >>
    ELSE IF tmp[i] = " " THEN << cur >> \o split(tmp, i + 1, << >>)
    ELSE split(tmp, i + 1, Append(cur, tmp[i]))

\* String.fromCharCode: ToUint16 of the number, NaN giving 0
fromCharCode(n) == IF n.nan THEN 0 ELSE n.val % 65536

\* hexToString (scripts.js 20-32)
hexToString(tmp) ==
    LET arr == split(tmp, 1, << >>)
    IN [i \in 1 .. Len(arr) |-> fromCharCode(h2d(arr[i]))]

NaNText == << "N", "a", "N" >>

\* new Date(m + "/" + d + "/" + y) (scripts.js 36): a month from 1 to 12 is
\* that month of year y; the text with month 0 is no date of the language's
\* own format, and an engine makes of it an invalid date or the month before
\* January
DateOutcomes(m, d, y) ==
    IF m \in 1 .. 12
    THEN { [nan |-> FALSE, year |-> y, month |-> m - 1] }
    ELSE { [nan |-> TRUE, year |-> 0, month |-> 0],
           [nan |-> FALSE, year |-> y - 1, month |-> 11] }

\* printAge (scripts.js 34-45): what document.write receives, start being
\* the date made of month - 1, day and year, today being new Date()
printAge(start, today) ==
    IF start.nan THEN NaNText
    ELSE LET years == today.year - start.year
         IN NumToStr(IF today.month < start.month THEN years - 1 ELSE years)

\* the strings given to stringToHex: up to MaxStrLen code units, of one, two
\* and four hexadecimal digits
CodeUnits == { 0, 10, 65, 9786 }
Strings == UNION { [1 .. n -> CodeUnits] : n \in 0 .. MaxStrLen }

\* the birth dates given to printAge, and the days on which it is called
BirthDates ==
    { [month |-> m, day |-> d, year |-> y] :
        m \in { 1, 2, 6, 12 }, d \in { 1, 15, 28 }, y \in { 1980, 2000 } }
Todays ==
    { [year |-> 2024, month |-> m, date |-> d] :
        m \in { 0, 4, 5, 11 }, d \in { 1, 15, 28 } }

InitScripts ==
    /\ GameInit(CanvasWidthPx * PX, { FALSE }, { NoItem })
    /\ \/ \E s \in Strings : page = [NoPage EXCEPT !.tmp = s]
       \/ \E b \in BirthDates : \E t \in Todays :
            page = [NoPage EXCEPT !.month = b.month, !.day = b.day,
                                  !.year = b.year, !.today = t]

StringToHexCall ==
    /\ page.call = "none"
    /\ page' = [page EXCEPT !.call = "stringToHex", !.hex = stringToHex(page.tmp)]
    /\ UNCHANGED gameVars

HexToStringCall ==
    /\ page.call = "stringToHex"
    /\ page' = [page EXCEPT !.call = "hexToString", !.str = hexToString(page.hex)]
    /\ UNCHANGED gameVars

PrintAgeCall ==
    /\ page.call = "none"
    /\ page.year > 0
    /\ \E start \in DateOutcomes(page.month - 1, page.day, page.year) :
         page' = [page EXCEPT !.call = "printAge",
                              !.written = printAge(start, page.today)]
    /\ UNCHANGED gameVars

NextScripts == StringToHexCall \/ HexToStringCall \/ PrintAgeCall

SpecScripts == InitScripts /\ [][NextScripts]_vars

\* -------------------------------------------------------------------- C39
\* C39: the hex codec round-trips: hexToString applied to stringToHex(s)
\* gives s back, for every string s.
C39_RoundTrip ==
    page.call = "hexToString" => page.str = page.tmp

\* -------------------------------------------------------------------- C40
\* whole years from the birth date to today: the difference of the calendar
\* years, less one when this year's birthday is still to come
WholeYears(month, day, year, today) ==
    LET before == \/ today.month + 1 < month
                  \/ today.month + 1 = month /\ today.date < day
    IN (today.year - year) - (IF before THEN 1 ELSE 0)

\* C40: printAge(month, day, year) writes the number of whole years
\* between the birth date and today.
C40_WholeYears ==
    page.call = "printAge" =>
        page.written = NumToStr(WholeYears(page.month, page.day, page.year, page.today))
====
